---- MODULE Spec2Model ----
(***************************************************************************)
(* Engagement State Engine of the Dungeon AI bot (src/main.py, src/db.py). *)
(*                                                                         *)
(* The module holds one state space and several specifications over it,    *)
(* one per component:                                                      *)
(*   SpecRate    the sliding-window rate limiter (guard_access)            *)
(*   SpecChaos   the chaos meter and its runtime tuning (/set_chaos)       *)
(*   SpecCounter concurrent inc_counter calls on the daily counters        *)
(*   SpecQuest   concurrent /quest handlers and the recent-hook window     *)
(*   SpecThread  concurrent /advice, /continue and /stop handlers and the  *)
(*               conversation thread                                       *)
(*   SpecSession concurrent /quest, /stop, /advice and /roll handlers of   *)
(*               two users                                                 *)
(*   SpecMemory  /quest and /advice handlers of one user inserting and     *)
(*               pruning memory snippets while the clock runs              *)
(*   SpecLoad    /continue handlers loading a stored thread of any content *)
(*   SpecDaily   /roll, /stats and rating callbacks across a day boundary  *)
(*   SpecLive    /quest, /advice and /continue handlers under the event    *)
(*               loop's fairness                                           *)
(*   SpecFail    /advice and /continue handlers whose generation may fail  *)
(*               over a store that already holds a thread                  *)
(*   SpecTally   /quest, /advice, /continue and /roll handlers across a    *)
(*               day boundary                                              *)
(*   SpecVotes   concurrent inc_counter and inc_votes calls, statement by  *)
(*               statement                                                 *)
(*   SpecReport  the daily-report task and the local clock, in hours       *)
(* Each specification leaves the other components' variables unchanged.    *)
(***************************************************************************)
EXTENDS Integers, Sequences, FiniteSets, TLC

(***************************************************************************)
(* Bounds of the model.                                                    *)
(***************************************************************************)
MaxTime == 4            \* the clock runs over 0..MaxTime
MaxCalls == 4           \* check_rate_limit calls recorded in one behaviour
MaxRateLimitMax == 2    \* RATE_LIMIT_MAX is configured in 0..MaxRateLimitMax
MaxRateLimitWindow == 2 \* RATE_LIMIT_WINDOW is configured in 1..MaxRateLimitWindow
MaxCount == 4           \* today's interaction count runs over 0..MaxCount
MaxConns == 3           \* inc_counter calls in flight at once
DayLength == 3          \* the local day changes when the clock reaches DayLength
MaxRequests == 2        \* requests the handlers take up in one behaviour
MaxThreadRequests == 4  \* requests made in one behaviour of SpecThread
MaxMemories == 2        \* MAX_MEMORIES_TOTAL as the handler specifications set it
MaxMemoryTime == 1      \* the clock of SpecMemory runs over 0..MaxMemoryTime
TightMemories == 1      \* MAX_MEMORIES_TOTAL as SpecMemory sets it
MaxItems == 2           \* entries of a stored list SpecLoad starts from
MaxRatings == 1         \* rating callbacks made in one behaviour

(***************************************************************************)
(* Identities.  ADMIN_USER_ID is read from the environment (main.py:31).   *)
(***************************************************************************)
ADMIN_USER_ID == 1
Users == {1, 2}

VARIABLES
  now,                \* time.time(), in whole seconds
  RATE_LIMIT_WINDOW,  \* main.py:67, fixed at import
  RATE_LIMIT_MAX,     \* main.py:68, fixed at import
  ALLOWED_USER_IDS,   \* main.py:70, fixed at import
  RATE_BUCKETS,       \* main.py:108; a missing key reads as <<>> (setdefault)
  rateLog,            \* history: per user, the check_rate_limit calls made
  CHAOS_BASE,         \* main.py:34, in thousandths
  CHAOS_SLOPE,        \* main.py:35, in thousandths
  CHAOS_MAX,          \* main.py:36, in thousandths
  interactions,       \* today's daily_counters.interactions as read by a handler
  chaos,              \* the value compute_chaos returned last, in thousandths
  daily_counters,     \* db.py:39-48, the committed table: day -> row
  dbWriter,           \* the connection holding SQLite's write lock, or NoConn
  txCounters,         \* daily_counters as the open write transaction sees it
  incCall,            \* the inc_counter calls: their arguments and position
  report,             \* the daily-report task: its position, timer and history
  RECENT_QUEST_HOOKS, \* main.py:107
  users,              \* db.py:7-13: user_id -> row
  messages,           \* db.py:14-23: the rows in id order
  memories,           \* db.py:24-31: the set of rows
  memSeq,             \* the last id AUTOINCREMENT gave a memories row
  MAX_MEMORIES_TOTAL, \* main.py:66, fixed at import
  last_quest,         \* user_state rows with key 'last_quest': user_id -> value
  thread_store,       \* user_state rows with key 'thread': user_id -> value
  feedback,           \* db.py:32-38: the rows in id order
  proc                \* the handlers in flight: position and local variables

rateVars == <<now, RATE_LIMIT_WINDOW, RATE_LIMIT_MAX, ALLOWED_USER_IDS,
              RATE_BUCKETS, rateLog>>
chaosVars == <<CHAOS_BASE, CHAOS_SLOPE, CHAOS_MAX, interactions, chaos>>
counterVars == <<daily_counters, dbWriter, txCounters, incCall, report>>
dbVars == <<users, messages, memories, memSeq, MAX_MEMORIES_TOTAL, last_quest,
           thread_store, feedback>>
vars == <<rateVars, chaosVars, counterVars, RECENT_QUEST_HOOKS, dbVars, proc>>

(***************************************************************************)
(* Helpers on sequences.                                                   *)
(***************************************************************************)
RECURSIVE SelectSeqBy(_, _)
\* [x for x in s if Keep[x]]
SelectSeqBy(s, Keep) ==
  IF s = <<>> THEN <<>>
  ELSE IF Keep[Head(s)] THEN <<Head(s)>> \o SelectSeqBy(Tail(s), Keep)
       ELSE SelectSeqBy(Tail(s), Keep)

RECURSIVE SumOver(_, _)
\* the sum of f[x] over the finite set S
SumOver(f, S) ==
  IF S = {} THEN 0
  ELSE LET x == CHOOSE y \in S : TRUE IN f[x] + SumOver(f, S \ {x})

Max2(a, b) == IF a >= b THEN a ELSE b
Min2(a, b) == IF a <= b THEN a ELSE b

(***************************************************************************)
(* 4.1 Rate limiter                                                        *)
(***************************************************************************)
\* main.py:122-125
user_allowed(user_id) ==
  IF user_id = ADMIN_USER_ID THEN TRUE
  ELSE ALLOWED_USER_IDS = {} \/ user_id \in ALLOWED_USER_IDS

\* an eviction that also drops a timestamp exactly RATE_LIMIT_WINDOW old
EvictedStrict(bucket, now_ts) ==
  LET cutoff == now_ts - RATE_LIMIT_WINDOW
  IN  SelectSeqBy(bucket, [t \in 0..MaxTime |-> t > cutoff])
\* main.py:136-137: the bucket after eviction
Evicted(bucket, now_ts) ==
  LET cutoff == now_ts - RATE_LIMIT_WINDOW
  IN  SelectSeqBy(bucket, [t \in 0..MaxTime |-> t >= cutoff])

\* main.py:138: the call is refused
BucketFullOffByOne(bucket) == Len(bucket) > RATE_LIMIT_MAX
BucketFull(bucket) == Len(bucket) >= RATE_LIMIT_MAX

\* a limiter that records the call before it decides
BucketAfterAppendFirst(bucket, now_ts) == Append(Evicted(bucket, now_ts), now_ts)
\* main.py:134-141: the bucket the call leaves behind
BucketAfter(bucket, now_ts) ==
  LET kept == Evicted(bucket, now_ts)
  IN  IF BucketFull(kept) THEN kept ELSE Append(kept, now_ts)

\* main.py:134-141: the value the call returns
Admitted(bucket, now_ts) == ~BucketFull(Evicted(bucket, now_ts))

\* main.py:134-141, one call; it has no suspension point, so it is one step
check_rate_limit(user_id, now_ts) ==
  /\ SumOver([u \in Users |-> Len(rateLog[u])], Users) < MaxCalls
  /\ RATE_BUCKETS' = [RATE_BUCKETS EXCEPT
                        ![user_id] = BucketAfter(RATE_BUCKETS[user_id], now_ts)]
  /\ rateLog' = [rateLog EXCEPT
                   ![user_id] = Append(@, [ts |-> now_ts,
                                           ok |-> Admitted(RATE_BUCKETS[user_id], now_ts)])]

\* main.py:143-154: a refused user never reaches check_rate_limit
guard_access(uid) ==
  /\ user_allowed(uid)
  /\ check_rate_limit(uid, now)
  /\ UNCHANGED <<now, RATE_LIMIT_WINDOW, RATE_LIMIT_MAX, ALLOWED_USER_IDS>>

\* time passes between two requests
Tick ==
  /\ now < MaxTime
  /\ now' = now + 1
  /\ UNCHANGED <<RATE_LIMIT_WINDOW, RATE_LIMIT_MAX, ALLOWED_USER_IDS,
                 RATE_BUCKETS, rateLog>>

\* the limiter as the other specifications configure it
RateFixed ==
  /\ now = 0
  /\ RATE_LIMIT_WINDOW = MaxRateLimitWindow
  /\ RATE_LIMIT_MAX = MaxRateLimitMax
  /\ ALLOWED_USER_IDS = {}
  /\ RATE_BUCKETS = [u \in Users |-> <<>>]
  /\ rateLog = [u \in Users |-> <<>>]

RateInit ==
  /\ now = 0
  /\ RATE_LIMIT_WINDOW \in 1..MaxRateLimitWindow
  /\ RATE_LIMIT_MAX \in 0..MaxRateLimitMax
  /\ ALLOWED_USER_IDS \in {{}, {ADMIN_USER_ID}}
  /\ RATE_BUCKETS = [u \in Users |-> <<>>]
  /\ rateLog = [u \in Users |-> <<>>]

(***************************************************************************)
(* 4.2 Chaos meter.  Floats are modelled in thousandths: 0.2 is 200.       *)
(***************************************************************************)
ChaosFloor == 200

\* main.py:167
clamp(x, a, b) == Max2(a, Min2(b, x))

\* main.py:168-169
compute_chaos(today_interactions) ==
  clamp(CHAOS_BASE + CHAOS_SLOPE * today_interactions, ChaosFloor, CHAOS_MAX)

ChaosInit ==
  /\ CHAOS_BASE = 500
  /\ CHAOS_SLOPE = 15
  /\ CHAOS_MAX = 1300
  /\ interactions = 0
  /\ chaos = 500

\* the values an operator may hand to /set_chaos, in thousandths
BaseChoices == {0, 500, 1000}
SlopeChoices == {-15, 0, 15, 400}
MaxChoices == {100, 1300, 1500}

\* main.py:480-490: only the admin, only with three arguments; the three
\* globals are assigned together, unvalidated
cmd_set_chaos(uid, base, slope, max) ==
  /\ uid = ADMIN_USER_ID
  /\ CHAOS_BASE' = base
  /\ CHAOS_SLOPE' = slope
  /\ CHAOS_MAX' = max
  /\ UNCHANGED <<interactions, chaos>>

\* main.py:354-357 (the same in handle_advice, cmd_continue): one more
\* interaction is counted, the day's count is read and the chaos computed
ChaosRead ==
  /\ interactions < MaxCount
  /\ interactions' = interactions + 1
  /\ chaos' = compute_chaos(interactions')
  /\ UNCHANGED <<CHAOS_BASE, CHAOS_SLOPE, CHAOS_MAX>>

(***************************************************************************)
(* 4.6 Daily analytics aggregator (db.py).  Every DB method opens its own  *)
(* connection; sqlite3 opens a transaction at the first INSERT/UPDATE and  *)
(* SQLite admits one write transaction at a time; readers see committed    *)
(* rows only.                                                              *)
(***************************************************************************)
Days == {"d1", "d2"}
Kinds == {"advice", "quest", "roll", "other"}
\* a table with no row
EmptyTable == [d \in {} |-> {}]
NoConn == 0
Conns == 1..MaxConns

\* db.py:39-48: the column defaults
ZeroRow == [interactions |-> 0, advice_count |-> 0, quest_count |-> 0,
            roll_count |-> 0, unique_users |-> 0, upvotes |-> 0, downvotes |-> 0]

\* INSERT OR REPLACE in place of the upsert: the row is rewritten
UpsertedReplace(table, day) ==
  [d \in DOMAIN table \cup {day} |->
     IF d = day THEN [ZeroRow EXCEPT !.interactions = 1] ELSE table[d]]
\* db.py:140-143: INSERT ... ON CONFLICT(day) DO UPDATE SET interactions + 1
Upserted(table, day) ==
  [d \in DOMAIN table \cup {day} |->
     IF d # day THEN table[d]
     ELSE IF day \in DOMAIN table THEN [table[d] EXCEPT !.interactions = @ + 1]
          ELSE [ZeroRow EXCEPT !.interactions = 1]]

\* db.py:144-146: UPDATE ... SET col = col + 1 WHERE day = ?
CategoryBumped(table, day, kind) ==
  IF day \notin DOMAIN table THEN table
  ELSE CASE kind = "advice" -> [table EXCEPT ![day].advice_count = @ + 1]
         [] kind = "quest" -> [table EXCEPT ![day].quest_count = @ + 1]
         [] kind = "roll" -> [table EXCEPT ![day].roll_count = @ + 1]
         [] OTHER -> table

\* db.py:144
Recognized(kind) == kind \in {"advice", "quest", "roll"}

\* db.py:140-143: the first statement opens the write transaction
IncUpsert(c) ==
  /\ incCall[c].pc = "start"
  /\ incCall[c].kind \in Kinds
  /\ dbWriter = NoConn
  /\ dbWriter' = c
  /\ txCounters' = Upserted(daily_counters, incCall[c].day)
  /\ incCall' = [incCall EXCEPT ![c].pc = "upserted"]
  /\ UNCHANGED <<daily_counters, report>>

\* db.py:140: another connection holds the write lock for the whole busy
\* timeout; execute raises "database is locked" and nothing is written
IncBusy(c) ==
  /\ incCall[c].pc = "start"
  /\ dbWriter \notin {NoConn, c}
  /\ incCall' = [incCall EXCEPT ![c].pc = "failed"]
  /\ UNCHANGED <<daily_counters, dbWriter, txCounters, report>>

\* db.py:144-146: the second statement, in the same transaction
IncCategory(c) ==
  /\ incCall[c].pc = "upserted"
  /\ Recognized(incCall[c].kind)
  /\ txCounters' = CategoryBumped(txCounters, incCall[c].day, incCall[c].kind)
  /\ incCall' = [incCall EXCEPT ![c].pc = "updated"]
  /\ UNCHANGED <<daily_counters, dbWriter, report>>

\* db.py:147: commit publishes both statements and frees the lock
IncCommit(c) ==
  /\ \/ incCall[c].pc = "updated"
     \/ incCall[c].pc = "upserted" /\ ~Recognized(incCall[c].kind)
  /\ dbWriter = c
  /\ daily_counters' = txCounters
  /\ dbWriter' = NoConn
  /\ incCall' = [incCall EXCEPT ![c].pc = "committed"]
  /\ UNCHANGED <<txCounters, report>>

\* an increment that leaves the category's counter alone
inc_counter_resultTotalOnly(table, day, kind) == Upserted(table, day)
\* db.py:138-147 as one step, for the specifications of the handlers
inc_counter_result(table, day, kind) ==
  IF Recognized(kind) THEN CategoryBumped(Upserted(table, day), day, kind)
  ELSE Upserted(table, day)

\* the daily-report task as the specifications without it keep it
ReportOff == [pc |-> "off", wake |-> 0, since |-> 0, sent |-> <<>>, shift |-> 0]

CounterEmpty ==
  /\ daily_counters = EmptyTable
  /\ dbWriter = NoConn
  /\ txCounters = EmptyTable
  /\ report = ReportOff

\* no inc_counter call in flight
CounterFixed ==
  /\ CounterEmpty
  /\ incCall = [c \in Conns |-> [day |-> "d1", kind |-> "other", pc |-> "committed"]]

\* MaxConns calls are issued at once, from an empty store
CounterInit ==
  /\ CounterEmpty
  /\ incCall \in [Conns -> [day : Days, kind : {"advice", "quest", "other"},
                             pc : {"start"}]]

(***************************************************************************)
(* Text.  A text is a sequence of tokens: words, the whitespace tokens " "  *)
(* and "\n", Box (an achievement block, from its trophy header through the  *)
(* text "Reward:") and LatentBox (such a block with doubled blanks inside   *)
(* its header, which ACHIEVEMENT_BOX_RE does not match until the blanks are *)
(* collapsed).                                                             *)
(***************************************************************************)
Box == "BOX"
LatentBox == "BOX2"
Whitespace == {" ", "\n"}

RECURSIVE DropLeadingWs(_)
DropLeadingWs(s) ==
  IF s # <<>> /\ Head(s) \in Whitespace THEN DropLeadingWs(Tail(s)) ELSE s

RECURSIVE DropTrailingWs(_)
DropTrailingWs(s) ==
  IF s # <<>> /\ s[Len(s)] \in Whitespace
  THEN DropTrailingWs(SubSeq(s, 1, Len(s) - 1)) ELSE s

\* str.strip()
Strip(s) == DropTrailingWs(DropLeadingWs(s))

\* str.lower(), token by token
LowerTok(t) ==
  CASE t = "H" -> "h"
    [] t = "F1" -> "f1"
    [] t = "F2" -> "f2"
    [] t = "F3" -> "f3"
    [] t = "Active quest:" -> "active quest:"
    [] OTHER -> t
Lower(s) == [i \in DOMAIN s |-> LowerTok(s[i])]

\* str.replace("\n", " ")
ReplaceNewlines(s) == [i \in DOMAIN s |-> IF s[i] = "\n" THEN " " ELSE s[i]]

RECURSIVE AfterLine(_)
\* what follows the first newline of s (nothing when s has none)
AfterLine(s) ==
  IF s = <<>> THEN <<>>
  ELSE IF Head(s) = "\n" THEN Tail(s) ELSE AfterLine(Tail(s))

RECURSIVE SubBoxes(_)
\* main.py:103-105, 257: ACHIEVEMENT_BOX_RE.sub(" ", raw); a match runs from
\* the header through "Reward:" and the rest of that line, newline included
SubBoxes(s) ==
  IF s = <<>> THEN <<>>
  ELSE IF Head(s) = Box THEN <<" ">> \o SubBoxes(AfterLine(Tail(s)))
       ELSE <<Head(s)>> \o SubBoxes(Tail(s))

RECURSIVE CollapseWs(_)
\* main.py:258: re.sub(r"\s+", " ", cleaned)
CollapseWs(s) ==
  IF s = <<>> THEN <<>>
  ELSE IF Head(s) \in Whitespace THEN <<" ">> \o CollapseWs(DropLeadingWs(s))
       ELSE <<IF Head(s) = LatentBox THEN Box ELSE Head(s)>> \o CollapseWs(Tail(s))

\* main.py:255-259
clean_quest_hook(raw) == Strip(CollapseWs(SubBoxes(raw)))

\* main.py:172, 176: hook.lower().strip()
HookKey(hook) == Strip(Lower(hook))

\* a check that reads the window as it was before its newest entry came in
quest_recently_usedStale(hook) ==
  \E i \in DOMAIN RECENT_QUEST_HOOKS :
    i < Len(RECENT_QUEST_HOOKS) /\ RECENT_QUEST_HOOKS[i] = HookKey(hook)
\* main.py:171-173
quest_recently_used(hook) ==
  \E i \in DOMAIN RECENT_QUEST_HOOKS : RECENT_QUEST_HOOKS[i] = HookKey(hook)

\* main.py:180: the size of the window
RecentHookCap == 20

\* a window that evicts its newest entry
RememberedDropNewest(window, hook) ==
  IF HookKey(hook) = <<>> THEN window
  ELSE IF Len(window) + 1 > RecentHookCap THEN window
       ELSE Append(window, HookKey(hook))
\* main.py:175-181: the window remember_quest(hook) leaves behind
Remembered(window, hook) ==
  LET key == HookKey(hook)
  IN  IF key = <<>> THEN window
      ELSE IF Len(window) + 1 > RecentHookCap THEN Tail(Append(window, key))
           ELSE Append(window, key)

\* main.py:97-101
QUEST_FALLBACKS == << <<"F1">>, <<"F2">>, <<"F3">> >>

\* what the model may answer to generate_quest_hook's request (the content
\* of the first choice), before main.py:290/298 strips it
GenContents ==
  { <<" ", "H", "\n", Box>>, <<Box>>, <<LatentBox>> }

\* main.py:290/298 and 301: content.strip().replace("\n", " "), then cleaned
generate_quest_hook(content) == clean_quest_hook(ReplaceNewlines(Strip(content)))

(***************************************************************************)
(* The durable store (db.py).  Each method runs one statement on its own   *)
(* connection and commits, so each is one step.                            *)
(***************************************************************************)
Procs == {"p1", "p2"}

\* main.py:156-158
local_day_key(ts) == IF ts < DayLength THEN "d1" ELSE "d2"

\* an upsert that updates the row of a known user and inserts none
upsert_user_resultUpdateOnly(table, user_id, now_ts) ==
  [u \in DOMAIN table |->
     IF u = user_id THEN [table[u] EXCEPT !.last_seen_ts = now_ts] ELSE table[u]]
\* db.py:68-75
upsert_user_result(table, user_id, now_ts) ==
  [u \in DOMAIN table \cup {user_id} |->
     IF u # user_id THEN table[u]
     ELSE IF user_id \in DOMAIN table THEN [table[u] EXCEPT !.last_seen_ts = now_ts]
          ELSE [first_seen_ts |-> now_ts, last_seen_ts |-> now_ts, alignment |-> "NEU"]]

\* db.py:77-84; the new row's id is its position
add_message_result(table, user_id, now_ts, kind) ==
  Append(table, [user_id |-> user_id, ts |-> now_ts, kind |-> kind])

\* db.py:86-91
add_memory_result(table, id, user_id, now_ts, snippet, importance) ==
  table \cup {[id |-> id, user_id |-> user_id, ts |-> now_ts,
               snippet |-> snippet, importance |-> importance]}

\* db.py:97: snippet LIKE prefix || '%'; SQLite's LIKE ignores ASCII case
LikePrefix(snippet, prefix) ==
  /\ Len(snippet) >= Len(prefix)
  /\ Lower(SubSeq(snippet, 1, Len(prefix))) = Lower(prefix)

\* a delete that removes no row
delete_memories_with_prefix_resultKeepAll(table, user_id, prefix) == table
\* db.py:93-99
delete_memories_with_prefix_result(table, user_id, prefix) ==
  {m \in table : ~(m.user_id = user_id /\ LikePrefix(m.snippet, prefix))}

\* an order that puts the older of two equally important rows first
RanksBeforeOldestFirst(m, n) ==
  \/ m.importance > n.importance
  \/ m.importance = n.importance /\ m.ts < n.ts
\* db.py:106: m comes before n under ORDER BY importance DESC, ts DESC
RanksBefore(m, n) ==
  \/ m.importance > n.importance
  \/ m.importance = n.importance /\ m.ts > n.ts

\* the sequences that list the set S once each, in an order the ORDER BY allows
RankedOrders(S) ==
  {q \in [1..Cardinality(S) -> S] :
     /\ \A i, j \in 1..Cardinality(S) : i # j => q[i] # q[j]
     /\ \A i, j \in 1..Cardinality(S) : i < j => ~RanksBefore(q[j], q[i])}

\* db.py:101-110: the lists get_top_memories may return
get_top_memories_results(table, user_id, limit) ==
  {[i \in 1..Min2(limit, Len(q)) |-> q[i].snippet] :
     q \in RankedOrders({m \in table : m.user_id = user_id})}

\* prune(user_id, keep): the tables it may leave, the keep highest-ranked
\* rows of the user kept
prune_memories_results(table, user_id, keep) ==
  {{m \in table : m.user_id # user_id} \cup {q[i] : i \in 1..Min2(keep, Len(q))} :
     q \in RankedOrders({m \in table : m.user_id = user_id})}

\* db.py:190-197 (set_last_quest), and set_thread alike: an upsert of the slot
SlotSet(table, user_id, value) ==
  [u \in DOMAIN table \cup {user_id} |-> IF u = user_id THEN value ELSE table[u]]

\* clear_last_quest, clear_thread: the slot's row is deleted
SlotCleared(table, user_id) ==
  [u \in DOMAIN table \ {user_id} |-> table[u]]

\* db.py:180: the dict day_snapshot returns for a day without a row
EmptySnapshot == [k \in {} |-> 0]

\* db.py:176-182: the row as a dict, or {} when the day has no row
day_snapshot(table, day) ==
  IF day \in DOMAIN table THEN table[day] ELSE EmptySnapshot

\* dict.get(key, 0)
SnapshotGet(snap, key) == IF key \in DOMAIN snap THEN snap[key] ELSE 0

\* main.py:225-227: get_today_interactions
today_interactions(table, day) ==
  LET snap == day_snapshot(table, day)
  IN  IF snap # EmptySnapshot THEN SnapshotGet(snap, "interactions") ELSE 0

\* a vote upsert written after inc_counter's: a created row counts an interaction
inc_votes_resultCountsInteraction(table, day, up, down) ==
  [d \in DOMAIN table \cup {day} |->
     IF d # day THEN table[d]
     ELSE IF day \in DOMAIN table
          THEN [table[d] EXCEPT !.upvotes = @ + up, !.downvotes = @ + down]
          ELSE [ZeroRow EXCEPT !.interactions = 1, !.upvotes = up, !.downvotes = down]]
\* db.py:149-158: INSERT ... ON CONFLICT(day) DO UPDATE of the two vote columns
inc_votes_result(table, day, up, down) ==
  [d \in DOMAIN table \cup {day} |->
     IF d # day THEN table[d]
     ELSE IF day \in DOMAIN table
          THEN [table[d] EXCEPT !.upvotes = @ + up, !.downvotes = @ + down]
          ELSE [ZeroRow EXCEPT !.upvotes = up, !.downvotes = down]]

\* db.py:160-164; the new row's id is its position
add_feedback_result(table, message_id, user_id, now_ts, rating) ==
  Append(table, [message_id |-> message_id, user_id |-> user_id, ts |-> now_ts,
                 rating |-> rating])

(***************************************************************************)
(* Handlers.  A handler runs from one await to the next in one step; the   *)
(* event loop interleaves the handlers in flight at their awaits.          *)
(***************************************************************************)
\* alone is history: no other admitted request of the same user has been in
\* flight since this one was admitted
IdleProc ==
  [pc |-> "idle", kind |-> "none", uid |-> 0, ts |-> 0,
   text |-> <<>>, question |-> <<>>, mems |-> <<>>, chaos |-> 0,
   quest |-> <<>>, reply |-> <<>>, hook |-> <<>>, attempts |-> 0,
   gens |-> <<>>, thread |-> <<>>, alone |-> TRUE]

Free(p) == proc[p].pc = "idle"
InFlight(p) == proc[p].pc # "idle"

\* main.py:143-154 and the handler's first lines (347-351 and alike): a
\* refused request ends at the guard (access_denied, rate_limited); else
\* now = int(time.time()) and uid are taken.  cap bounds the requests made.
StartAt(cap, p, u, kind, text, first) ==
  /\ Free(p)
  /\ SumOver([v \in Users |-> Len(rateLog[v])], Users) < cap
  /\ IF ~user_allowed(u)
     THEN UNCHANGED <<rateVars, proc>>
     ELSE /\ guard_access(u)
          /\ proc' =
               IF Admitted(RATE_BUCKETS[u], now)
               THEN [q \in Procs |->
                       IF q = p
                       THEN [IdleProc EXCEPT !.pc = first, !.kind = kind,
                               !.uid = u, !.ts = now, !.text = text,
                               !.alone = \A r \in Procs : InFlight(r) => proc[r].uid # u]
                       ELSE IF InFlight(q) /\ proc[q].uid = u
                            THEN [proc[q] EXCEPT !.alone = FALSE]
                            ELSE proc[q]]
               ELSE proc
  /\ UNCHANGED <<chaosVars, counterVars, RECENT_QUEST_HOOKS, dbVars>>

\* the handlers whose first await is db.upsert_user
StartWithin(cap, p, u, kind, text) == StartAt(cap, p, u, kind, text, "upsert")

Start(p, u, kind, text) == StartWithin(MaxRequests, p, u, kind, text)

\* main.py:352 (339, 428, 532, 593): await db.upsert_user(uid, uname, now)
HUpsertUser(p) ==
  /\ proc[p].pc = "upsert"
  /\ users' = upsert_user_result(users, proc[p].uid, proc[p].ts)
  /\ proc' = [proc EXCEPT ![p].pc =
                 IF proc[p].kind = "stop" THEN "s_delmem" ELSE "inc"]
  /\ UNCHANGED <<rateVars, chaosVars, counterVars, RECENT_QUEST_HOOKS,
                 messages, memories, memSeq, MAX_MEMORIES_TOTAL, last_quest,
                 thread_store, feedback>>

\* main.py:354 (430, 537, 595): await db.inc_counter(day, kind); /continue
\* counts as "advice"
CounterKind(kind) == IF kind = "continue" THEN "advice" ELSE kind

HIncCounter(p) ==
  /\ proc[p].pc = "inc"
  /\ dbWriter = NoConn
  /\ daily_counters' = inc_counter_result(daily_counters,
                          local_day_key(proc[p].ts), CounterKind(proc[p].kind))
  /\ proc' = [proc EXCEPT ![p].pc =
                 CASE proc[p].kind = "quest" -> "snap"
                   [] proc[p].kind = "roll" -> "r_roll"
                   [] proc[p].kind = "advice" -> "a_topmem"
                   [] OTHER -> "c_getthread"]
  /\ UNCHANGED <<rateVars, chaosVars, dbWriter, txCounters, incCall, report,
                 RECENT_QUEST_HOOKS, dbVars>>

\* main.py:356-357 (541-542, 610-611): the day's interactions are read, under
\* the day of the read, and the chaos computed
HSnapshot(p) ==
  /\ proc[p].pc = "snap"
  /\ proc' = [proc EXCEPT
       ![p].chaos = compute_chaos(today_interactions(daily_counters, local_day_key(now))),
       ![p].pc = CASE proc[p].kind = "quest" -> "q_gen"
                   [] proc[p].kind = "advice" -> "a_getquest"
                   [] OTHER -> "c_getquest"]
  /\ UNCHANGED <<rateVars, chaosVars, counterVars, RECENT_QUEST_HOOKS, dbVars>>

\* a generation call: it raises, or returns the hook made of some content
GenOutcomes ==
  {[err |-> TRUE, hook |-> <<>>]}
    \cup {[err |-> FALSE, hook |-> generate_quest_hook(c)] : c \in GenContents}

\* main.py:379-380: the fallbacks not in the window, or all of them
FallbackOptions ==
  LET all == {QUEST_FALLBACKS[i] : i \in DOMAIN QUEST_FALLBACKS}
      fresh == {q \in all : ~quest_recently_used(q)}
  IN  IF fresh # {} THEN fresh ELSE all

\* a handler that installs whatever the loop left
AcceptableAsIs(hook) == {hook}
\* main.py:377-380: the hooks the handler may accept once the loop has ended
Acceptable(hook) == IF hook = <<>> THEN FallbackOptions ELSE {hook}

\* a loop that regenerates for as long as the hook is a duplicate
LoopsAgainUnbounded(hook, attempts) == hook # <<>> /\ quest_recently_used(hook)
\* main.py:369: the loop's condition
LoopsAgain(hook, attempts) ==
  hook # <<>> /\ quest_recently_used(hook) /\ attempts < 2

\* main.py:369-381, from the loop's condition to the next await: either the
\* next generation is requested, or a hook is accepted and remembered
QuestLoop(p, hook, gens) ==
  IF LoopsAgain(hook, proc[p].attempts)
  THEN /\ proc' = [proc EXCEPT ![p].hook = hook, ![p].gens = gens,
                      ![p].attempts = @ + 1, ![p].pc = "q_regen"]
       /\ UNCHANGED RECENT_QUEST_HOOKS
  ELSE \E final \in Acceptable(hook) :
         /\ RECENT_QUEST_HOOKS' = Remembered(RECENT_QUEST_HOOKS, final)
         /\ proc' = [proc EXCEPT ![p].hook = final, ![p].gens = gens,
                        ![p].attempts = 0, ![p].chaos = 0, ![p].pc = "q_delmem"]

\* main.py:359-367: the first generation returns; on an error or an empty
\* hook a fallback is drawn; the hook is cleaned and the loop is entered
QuestGen(p, g) ==
  /\ proc[p].pc = "q_gen"
  /\ \E h \in (IF g.hook = <<>>
                THEN {QUEST_FALLBACKS[i] : i \in DOMAIN QUEST_FALLBACKS}
                ELSE {g.hook}) :
       QuestLoop(p, clean_quest_hook(h), Append(proc[p].gens, g))
  /\ UNCHANGED <<rateVars, chaosVars, counterVars, dbVars>>

\* main.py:371-376: a regeneration returns; an error empties the hook and
\* leaves the loop
QuestRegen(p, g) ==
  /\ proc[p].pc = "q_regen"
  /\ QuestLoop(p, IF g.err THEN <<>> ELSE clean_quest_hook(g.hook),
               Append(proc[p].gens, g))
  /\ UNCHANGED <<rateVars, chaosVars, counterVars, dbVars>>

ActiveQuestPrefix == <<"Active quest:">>

\* main.py:384: await db.delete_memories_with_prefix(uid, "Active quest:")
QuestDeleteMemories(p) ==
  /\ proc[p].pc = "q_delmem"
  /\ memories' = delete_memories_with_prefix_result(memories, proc[p].uid,
                                                    ActiveQuestPrefix)
  /\ proc' = [proc EXCEPT ![p].pc = "q_setquest", ![p].gens = <<>>]
  /\ UNCHANGED <<rateVars, chaosVars, counterVars, RECENT_QUEST_HOOKS, users,
                 messages, memSeq, MAX_MEMORIES_TOTAL, last_quest, thread_store, feedback>>

\* main.py:385: await db.set_last_quest(uid, now, hook)
QuestSetLastQuest(p) ==
  /\ proc[p].pc = "q_setquest"
  /\ last_quest' = SlotSet(last_quest, proc[p].uid, proc[p].hook)
  /\ proc' = [proc EXCEPT ![p].pc = "q_addmem"]
  /\ UNCHANGED <<rateVars, chaosVars, counterVars, RECENT_QUEST_HOOKS, users,
                 messages, memories, memSeq, MAX_MEMORIES_TOTAL, thread_store, feedback>>

\* main.py:386: await db.add_memory(uid, now, f"Active quest: {hook}", 3)
QuestAddMemory(p) ==
  /\ proc[p].pc = "q_addmem"
  /\ memSeq' = memSeq + 1
  /\ memories' = add_memory_result(memories, memSeq + 1, proc[p].uid, proc[p].ts,
                                   ActiveQuestPrefix \o <<" ">> \o proc[p].hook, 3)
  /\ proc' = [proc EXCEPT ![p].pc = "q_prune"]
  /\ UNCHANGED <<rateVars, chaosVars, counterVars, RECENT_QUEST_HOOKS, users,
                 messages, MAX_MEMORIES_TOTAL, last_quest, thread_store, feedback>>

\* main.py:387 (565, 632): await db.prune_memories(uid, keep=MAX_MEMORIES_TOTAL)
HPruneMemories(p) ==
  /\ proc[p].pc \in {"q_prune", "a_prune", "c_prune"}
  /\ memories' \in prune_memories_results(memories, proc[p].uid, MAX_MEMORIES_TOTAL)
  /\ proc' = [proc EXCEPT ![p].pc =
                 CASE proc[p].pc = "q_prune" -> "q_clear"
                   [] proc[p].pc = "a_prune" -> "a_align"
                   [] OTHER -> "c_align"]
  /\ UNCHANGED <<rateVars, chaosVars, counterVars, RECENT_QUEST_HOOKS, users,
                 messages, memSeq, MAX_MEMORIES_TOTAL, last_quest, thread_store, feedback>>

\* main.py:388: await db.clear_thread(uid)
QuestClearThread(p) ==
  /\ proc[p].pc = "q_clear"
  /\ thread_store' = SlotCleared(thread_store, proc[p].uid)
  /\ proc' = [proc EXCEPT ![p].pc = "q_addmsg"]
  /\ UNCHANGED <<rateVars, chaosVars, counterVars, RECENT_QUEST_HOOKS, users,
                 messages, memories, memSeq, MAX_MEMORIES_TOTAL, last_quest, feedback>>

\* main.py:390-395: the interaction is recorded and the hook sent
QuestAddMessage(p) ==
  /\ proc[p].pc = "q_addmsg"
  /\ messages' = add_message_result(messages, proc[p].uid, proc[p].ts, "quest")
  /\ proc' = [proc EXCEPT ![p] = IdleProc]
  /\ UNCHANGED <<rateVars, chaosVars, counterVars, RECENT_QUEST_HOOKS, users,
                 memories, memSeq, MAX_MEMORIES_TOTAL, last_quest, thread_store, feedback>>

(***************************************************************************)
(* The conversation thread: its serialised form and /advice, /continue     *)
(* and /stop.                                                              *)
(***************************************************************************)
\* main.py:110
THREAD_MAX == 3
\* main.py:38
MAX_HISTORY == 5

\* a word of more than 80 characters
LongWord == "LONG"

\* len(): the characters a token stands for
TokLen(t) ==
  CASE t = LongWord -> 81
    [] t = "Strategy to tackle my current quest:" -> 36
    [] t = "(Consider current quest context:" -> 32
    [] t \in {"F1", "F2", "F3"} -> 73
    [] OTHER -> 1

RECURSIVE CharLen(_)
CharLen(s) == IF s = <<>> THEN 0 ELSE TokLen(Head(s)) + CharLen(Tail(s))

\* the tail of a token cut by a slice
CutWord == "CUT"

RECURSIVE Sliced(_, _)
\* s[:n]
Sliced(s, n) ==
  IF s = <<>> \/ n <= 0 THEN <<>>
  ELSE IF TokLen(Head(s)) <= n
       THEN <<Head(s)>> \o Sliced(Tail(s), n - TokLen(Head(s)))
       ELSE <<CutWord>>

\* main.py:563 (630): re.sub(r"\s+", " ", text)[:180]
MemorySnippet(text) == Sliced(CollapseWs(text), 180)

\* main.py:216-223: the words that move the score are tokens of the text
infer_alignment(text) ==
  LET t == Lower(text)
      law == IF \E i \in DOMAIN t : t[i] \in {"policy", "plan", "process", "deadline", "sprint"}
             THEN 1 ELSE 0
      cha == IF \E i \in DOMAIN t : t[i] \in {"idk", "wing", "gamble", "chaos", "yolo", "improvise"}
             THEN 1 ELSE 0
  IN  IF law - cha > 0 THEN "LAW" ELSE IF law - cha < 0 THEN "CHA" ELSE "NEU"

\* db.py:121-124: UPDATE users SET alignment = ? WHERE user_id = ?
set_alignment_result(table, user_id, alignment) ==
  [u \in DOMAIN table |->
     IF u = user_id THEN [table[u] EXCEPT !.alignment = alignment] ELSE table[u]]

\* JSON documents
JsonStr(s) == [t |-> "str", v |-> s]
JsonObj(d) == [t |-> "obj", v |-> d]
JsonList(items) == [t |-> "list", v |-> items]

\* the value of a slot of user_state that has no row (None)
NoRaw == [kind |-> "none", doc |-> JsonList(<<>>)]

\* main.py:580, 649: json.dumps(thread), the text of a list of objects with
\* the keys of each exchange
json_dumps(thread) ==
  [kind |-> "json",
   doc |-> JsonList([i \in DOMAIN thread |->
                       JsonObj([k \in DOMAIN thread[i] |-> JsonStr(thread[i][k])])])]

\* main.py:189: an entry of the list is kept when it is an object with both keys
WellFormed(item) ==
  item.t = "obj" /\ "user" \in DOMAIN item.v /\ "bot" \in DOMAIN item.v

\* main.py:183-192: None, "" and a text json.loads rejects give []; so does a
\* document that is not a list; the kept objects come back as dicts, each
\* value carried by its payload
load_thread(raw) ==
  IF raw.kind # "json" THEN <<>>
  ELSE IF raw.doc.t # "list" THEN <<>>
  ELSE LET kept == SelectSeq(raw.doc.v, WellFormed)
       IN  [i \in DOMAIN kept |-> [k \in DOMAIN kept[i].v |-> kept[i].v[k].v]]

\* a thread cut to its oldest THREAD_MAX exchanges
trim_threadKeepOldest(exchanges) ==
  IF Len(exchanges) > THREAD_MAX THEN SubSeq(exchanges, 1, THREAD_MAX) ELSE exchanges
\* main.py:194-195
trim_thread(exchanges) ==
  IF Len(exchanges) > THREAD_MAX
  THEN SubSeq(exchanges, Len(exchanges) - THREAD_MAX + 1, Len(exchanges))
  ELSE exchanges

RECURSIVE ThreadText(_)
\* main.py:198-201: the blocks joined by "\n\n"
ThreadText(exchanges) ==
  IF exchanges = <<>> THEN <<>>
  ELSE <<"User:", " ">> \o Head(exchanges).user \o <<"\n", "Dungeon AI:", " ">>
         \o Head(exchanges).bot
         \o (IF Tail(exchanges) = <<>> THEN <<>>
             ELSE <<"\n", "\n">> \o ThreadText(Tail(exchanges)))

\* main.py:197-204
build_thread_prompt(exchanges, new_text, quest) ==
  <<"Continue this conversation using the prior exchanges.", "\n">>
    \o ThreadText(exchanges)
    \o <<"\n", "\n", "New request:", " ">>
    \o (IF new_text # <<>> THEN new_text
        ELSE <<"Continue the guidance on this same topic.">>)
    \o (IF quest # <<>> THEN <<"\n", "Consider current quest:", " ">> \o quest ELSE <<>>)

\* get_thread(user_id), get_last_quest alike (db.py:199-203): the slot's value
SlotValue(table, user_id, absent) ==
  IF user_id \in DOMAIN table THEN table[user_id] ELSE absent

\* main.py:539-540 (608-609): await db.get_top_memories(uid, MAX_HISTORY); the
\* snippets are cleaned and the empty ones dropped
NonEmptyText(s) == s # <<>>
HTopMemories(p) ==
  /\ proc[p].pc \in {"a_topmem", "c_topmem"}
  /\ \E raw \in get_top_memories_results(memories, proc[p].uid, MAX_HISTORY) :
       proc' = [proc EXCEPT
         ![p].mems = SelectSeq([i \in DOMAIN raw |-> clean_quest_hook(raw[i])],
                               NonEmptyText),
         ![p].pc = "snap"]
  /\ UNCHANGED <<rateVars, chaosVars, counterVars, RECENT_QUEST_HOOKS, dbVars>>

\* a question that leaves the quest out
AdviceQuestionAsTyped(user_question, quest) == user_question
\* main.py:548-551: the question handed to the collaborator
AdviceQuestion(user_question, quest) ==
  IF user_question = <<>> /\ quest # <<>>
  THEN <<"Strategy to tackle my current quest:", " ">> \o quest
  ELSE IF user_question # <<>> /\ quest # <<>>
       THEN user_question \o <<"\n", "(Consider current quest context:", " ">>
              \o quest \o <<")">>
       ELSE user_question

\* prompts.py:25-31: the user message of the request to the collaborator
build_user_prompt(question, quest) ==
  <<"Adventurer @", "name", " asks:", "\n", "\"">> \o question \o <<"\"">>
    \o (IF quest # <<>> THEN <<"\n", "Related active quest:", " ">> \o quest ELSE <<>>)
    \o <<"\n", "\n", "Respond as the Dungeon AI, in-character.">>

\* main.py:543-551 (612-616): await db.get_last_quest(uid); the quest is
\* cleaned, and the question (the continuation prompt) is put together
HGetLastQuest(p) ==
  /\ proc[p].pc \in {"a_getquest", "c_getquest"}
  /\ LET stored == SlotValue(last_quest, proc[p].uid, <<>>)
         quest == IF stored # <<>> THEN clean_quest_hook(stored) ELSE <<>>
     IN  proc' = [proc EXCEPT
           ![p].quest = quest,
           ![p].question =
              IF proc[p].kind = "advice"
              THEN AdviceQuestion(Strip(proc[p].text), quest)
              ELSE build_thread_prompt(proc[p].thread, Strip(proc[p].text), quest),
           ![p].pc = IF proc[p].kind = "advice" THEN "a_gen" ELSE "c_gen"]
  /\ UNCHANGED <<rateVars, chaosVars, counterVars, RECENT_QUEST_HOOKS, dbVars>>

\* what the collaborator may answer to generate_reply: advice that ends in
\* an achievement block
ReplyContents == { <<"r", "\n", Box, "\n">> }
\* main.py:231-252: the call raises, or returns content.strip()
ReplyOutcomes ==
  {[err |-> TRUE, reply |-> <<>>]}
    \cup {[err |-> FALSE, reply |-> Strip(c)] : c \in ReplyContents}

\* a handler that records the interaction whatever the call's outcome
HGenerateReplyRecordsFailure(p, g) ==
  /\ proc[p].pc \in {"a_gen", "c_gen"}
  /\ proc' = [proc EXCEPT ![p] =
       IF g.err THEN IdleProc
       ELSE [@ EXCEPT !.reply = g.reply, !.mems = <<>>, !.chaos = 0, !.quest = <<>>,
                      !.pc = IF proc[p].kind = "advice" THEN "a_addmsg" ELSE "c_addmsg"]]
  /\ messages' = IF g.err
                 THEN add_message_result(messages, proc[p].uid, proc[p].ts, "advice")
                 ELSE messages
  /\ UNCHANGED <<rateVars, chaosVars, counterVars, RECENT_QUEST_HOOKS, users,
                 memories, memSeq, MAX_MEMORIES_TOTAL, last_quest, thread_store,
                 feedback>>
\* main.py:553-559 (618-625): the generation returns; on an error the
\* handler apologises and ends
HGenerateReply(p, g) ==
  /\ proc[p].pc \in {"a_gen", "c_gen"}
  /\ proc' = [proc EXCEPT ![p] =
       IF g.err THEN IdleProc
       ELSE [@ EXCEPT !.reply = g.reply, !.mems = <<>>, !.chaos = 0, !.quest = <<>>,
                      !.pc = IF proc[p].kind = "advice" THEN "a_addmsg" ELSE "c_addmsg"]]
  /\ UNCHANGED <<rateVars, chaosVars, counterVars, RECENT_QUEST_HOOKS, dbVars>>

\* main.py:562 (629): the text whose length decides on a memory: the
\* question of /advice, the user's text of /continue
MemoryText(p) ==
  IF proc[p].kind = "advice" THEN proc[p].question ELSE Strip(proc[p].text)

\* main.py:560-562 (627-629): await db.add_message(uid, now, "advice", ...)
HAddMessage(p) ==
  /\ proc[p].pc \in {"a_addmsg", "c_addmsg"}
  /\ messages' = add_message_result(messages, proc[p].uid, proc[p].ts, "advice")
  /\ proc' = [proc EXCEPT ![p].pc =
       IF proc[p].kind = "advice"
       THEN (IF CharLen(MemoryText(p)) > 80 THEN "a_addmem" ELSE "a_align")
       ELSE (IF CharLen(MemoryText(p)) > 80 THEN "c_addmem" ELSE "c_align")]
  /\ UNCHANGED <<rateVars, chaosVars, counterVars, RECENT_QUEST_HOOKS, users,
                 memories, memSeq, MAX_MEMORIES_TOTAL, last_quest, thread_store, feedback>>

\* main.py:563-564 (630-631): await db.add_memory(uid, now, snippet, 2)
HAddMemory(p) ==
  /\ proc[p].pc \in {"a_addmem", "c_addmem"}
  /\ memSeq' = memSeq + 1
  /\ memories' = add_memory_result(memories, memSeq + 1, proc[p].uid, proc[p].ts,
                                   MemorySnippet(MemoryText(p)), 2)
  /\ proc' = [proc EXCEPT ![p].pc =
                 IF proc[p].kind = "advice" THEN "a_prune" ELSE "c_prune"]
  /\ UNCHANGED <<rateVars, chaosVars, counterVars, RECENT_QUEST_HOOKS, users,
                 messages, MAX_MEMORIES_TOTAL, last_quest, thread_store, feedback>>

\* main.py:634: user_text or continue_prompt
ContinueUserText(p) ==
  IF Strip(proc[p].text) # <<>> THEN Strip(proc[p].text) ELSE proc[p].question

\* main.py:567 (634): await db.set_alignment(uid, infer_alignment(...))
HSetAlignment(p) ==
  /\ proc[p].pc \in {"a_align", "c_align"}
  /\ users' = set_alignment_result(users, proc[p].uid,
                 infer_alignment(IF proc[p].kind = "advice" THEN proc[p].question
                                 ELSE ContinueUserText(p)))
  /\ proc' = [proc EXCEPT ![p].pc =
                 IF proc[p].kind = "advice" THEN "a_setthread" ELSE "c_setthread"]
  /\ UNCHANGED <<rateVars, chaosVars, counterVars, RECENT_QUEST_HOOKS,
                 messages, memories, memSeq, MAX_MEMORIES_TOTAL, last_quest,
                 thread_store, feedback>>

\* an /advice that appends its exchange to the stored thread, as /continue does
AdviceSetThreadExtends(p) ==
  /\ proc[p].pc = "a_setthread"
  /\ thread_store' = SlotSet(thread_store, proc[p].uid,
        json_dumps(trim_thread(
          Append(load_thread(SlotValue(thread_store, proc[p].uid, NoRaw)),
                 [user |-> proc[p].question, bot |-> proc[p].reply]))))
  /\ proc' = [proc EXCEPT ![p] = IdleProc]
  /\ UNCHANGED <<rateVars, chaosVars, counterVars, RECENT_QUEST_HOOKS, users,
                 messages, memories, memSeq, MAX_MEMORIES_TOTAL, last_quest, feedback>>
\* main.py:569-582: the reply is sent and the thread replaced by the one
\* exchange
AdviceSetThread(p) ==
  /\ proc[p].pc = "a_setthread"
  /\ thread_store' = SlotSet(thread_store, proc[p].uid,
        json_dumps(trim_thread(<<[user |-> proc[p].question, bot |-> proc[p].reply]>>)))
  /\ proc' = [proc EXCEPT ![p] = IdleProc]
  /\ UNCHANGED <<rateVars, chaosVars, counterVars, RECENT_QUEST_HOOKS, users,
                 messages, memories, memSeq, MAX_MEMORIES_TOTAL, last_quest, feedback>>

\* main.py:597-603: raw_thread = await db.get_thread(uid); the handler ends
\* when no exchange is loaded
ContinueGetThread(p) ==
  /\ proc[p].pc = "c_getthread"
  /\ LET thread == trim_thread(load_thread(SlotValue(thread_store, proc[p].uid, NoRaw)))
     IN  proc' = [proc EXCEPT ![p] =
           IF thread = <<>> THEN IdleProc
           ELSE [@ EXCEPT !.thread = thread, !.pc = "c_topmem"]]
  /\ UNCHANGED <<rateVars, chaosVars, counterVars, RECENT_QUEST_HOOKS, dbVars>>

\* main.py:636-650: the reply is sent, the exchange appended to the thread
\* the handler loaded, and the trimmed thread stored
ContinueSetThread(p) ==
  /\ proc[p].pc = "c_setthread"
  /\ thread_store' = SlotSet(thread_store, proc[p].uid,
        json_dumps(trim_thread(Append(proc[p].thread,
                      [user |-> ContinueUserText(p), bot |-> proc[p].reply]))))
  /\ proc' = [proc EXCEPT ![p] = IdleProc]
  /\ UNCHANGED <<rateVars, chaosVars, counterVars, RECENT_QUEST_HOOKS, users,
                 messages, memories, memSeq, MAX_MEMORIES_TOTAL, last_quest, feedback>>

\* main.py:340: await db.delete_memories_with_prefix(uid, "Active quest:")
StopDeleteMemories(p) ==
  /\ proc[p].pc = "s_delmem"
  /\ memories' = delete_memories_with_prefix_result(memories, proc[p].uid,
                                                    ActiveQuestPrefix)
  /\ proc' = [proc EXCEPT ![p].pc = "s_clearquest"]
  /\ UNCHANGED <<rateVars, chaosVars, counterVars, RECENT_QUEST_HOOKS, users,
                 messages, memSeq, MAX_MEMORIES_TOTAL, last_quest, thread_store, feedback>>

\* main.py:341: await db.clear_last_quest(uid)
StopClearLastQuest(p) ==
  /\ proc[p].pc = "s_clearquest"
  /\ last_quest' = SlotCleared(last_quest, proc[p].uid)
  /\ proc' = [proc EXCEPT ![p].pc = "s_clearthread"]
  /\ UNCHANGED <<rateVars, chaosVars, counterVars, RECENT_QUEST_HOOKS, users,
                 messages, memories, memSeq, MAX_MEMORIES_TOTAL, thread_store, feedback>>

\* main.py:342-343: await db.clear_thread(uid), and the reply
StopClearThread(p) ==
  /\ proc[p].pc = "s_clearthread"
  /\ thread_store' = SlotCleared(thread_store, proc[p].uid)
  /\ proc' = [proc EXCEPT ![p] = IdleProc]
  /\ UNCHANGED <<rateVars, chaosVars, counterVars, RECENT_QUEST_HOOKS, users,
                 messages, memories, memSeq, MAX_MEMORIES_TOTAL, last_quest, feedback>>

\* main.py:432: re.search(r"(\d*)d(\d+)", text): the text names dice
DiceWord == "d20"
NamesDice(text) == \E i \in DOMAIN text : text[i] = DiceWord

\* main.py:432-442: without dice the handler replies and ends; else the
\* dice are rolled and await db.add_message(uid, now, "roll", 0, 0, ...)
RollAddMessage(p) ==
  /\ proc[p].pc = "r_roll"
  /\ IF NamesDice(proc[p].text)
     THEN /\ messages' = add_message_result(messages, proc[p].uid, proc[p].ts, "roll")
          /\ proc' = [proc EXCEPT ![p].pc = "r_clear"]
     ELSE /\ proc' = [proc EXCEPT ![p] = IdleProc]
          /\ UNCHANGED messages
  /\ UNCHANGED <<rateVars, chaosVars, counterVars, RECENT_QUEST_HOOKS, users,
                 memories, memSeq, MAX_MEMORIES_TOTAL, last_quest, thread_store, feedback>>

\* main.py:443-444: the rolls are sent and await db.clear_thread(uid)
RollClearThread(p) ==
  /\ proc[p].pc = "r_clear"
  /\ thread_store' = SlotCleared(thread_store, proc[p].uid)
  /\ proc' = [proc EXCEPT ![p] = IdleProc]
  /\ UNCHANGED <<rateVars, chaosVars, counterVars, RECENT_QUEST_HOOKS, users,
                 messages, memories, memSeq, MAX_MEMORIES_TOTAL, last_quest, feedback>>

\* main.py:448-451: /stats passes the guard and awaits db.get_stats(uid), a
\* read of the messages table
StartStats(p, u) == StartAt(MaxRequests, p, u, "stats", <<>>, "t_getstats")

StatsGetStats(p) ==
  /\ proc[p].pc = "t_getstats"
  /\ proc' = [proc EXCEPT ![p].pc = "t_snapshot"]
  /\ UNCHANGED <<rateVars, chaosVars, counterVars, RECENT_QUEST_HOOKS, dbVars>>

\* main.py:452-453: today = await db.day_snapshot(local_day_key()); the chaos
\* is computed from a row, and is CHAOS_BASE when the dict is empty
StatsSnapshot(p) ==
  /\ proc[p].pc = "t_snapshot"
  /\ LET today == day_snapshot(daily_counters, local_day_key(now))
     IN  proc' = [proc EXCEPT
           ![p].chaos = IF today # EmptySnapshot
                        THEN compute_chaos(SnapshotGet(today, "interactions"))
                        ELSE CHAOS_BASE,
           ![p].pc = "t_reply"]
  /\ UNCHANGED <<rateVars, chaosVars, counterVars, RECENT_QUEST_HOOKS, dbVars>>

\* main.py:454-455: await message.reply(...)
StatsReply(p) ==
  /\ proc[p].pc = "t_reply"
  /\ proc' = [proc EXCEPT ![p] = IdleProc]
  /\ UNCHANGED <<rateVars, chaosVars, counterVars, RECENT_QUEST_HOOKS, dbVars>>

\* the ratings a callback carries after "rate:<id>:"
Ratings == {"up", "meh"}
\* the message ids a callback carries
RatedIds == {1}

\* main.py:654-660: the callback of a rating button; any user may press it,
\* guard_access is not called; every rating but "up" counts as "down"
StartRate(p, u, rating) ==
  /\ Free(p)
  /\ Len(feedback) + Cardinality({q \in Procs : proc[q].kind = "rate"}) < MaxRatings
  /\ proc' = [proc EXCEPT ![p] =
       [IdleProc EXCEPT !.pc = "f_feedback", !.kind = "rate", !.uid = u, !.ts = now,
                        !.text = <<IF rating = "up" THEN "up" ELSE "down">>]]
  /\ UNCHANGED <<rateVars, chaosVars, counterVars, RECENT_QUEST_HOOKS, dbVars>>

\* main.py:661: await db.add_feedback(int(msg_id_str), uid, now, rating)
RateAddFeedback(p, id) ==
  /\ proc[p].pc = "f_feedback"
  /\ feedback' = add_feedback_result(feedback, id, proc[p].uid, proc[p].ts,
                                     proc[p].text[1])
  /\ proc' = [proc EXCEPT ![p].pc = "f_votes"]
  /\ UNCHANGED <<rateVars, chaosVars, counterVars, RECENT_QUEST_HOOKS, users,
                 messages, memories, memSeq, MAX_MEMORIES_TOTAL, last_quest,
                 thread_store>>

\* main.py:662-663: await db.inc_votes(day, up, down); the callback is answered
RateIncVotes(p) ==
  /\ proc[p].pc = "f_votes"
  /\ dbWriter = NoConn
  /\ daily_counters' = inc_votes_result(daily_counters, local_day_key(proc[p].ts),
                          IF proc[p].text[1] = "up" THEN 1 ELSE 0,
                          IF proc[p].text[1] = "down" THEN 1 ELSE 0)
  /\ proc' = [proc EXCEPT ![p] = IdleProc]
  /\ UNCHANGED <<rateVars, chaosVars, dbWriter, txCounters, incCall, report,
                 RECENT_QUEST_HOOKS, dbVars>>

\* db.py:63-66: the tables are created empty
DbInit ==
  /\ users = EmptyTable
  /\ messages = <<>>
  /\ memories = {}
  /\ memSeq = 0
  /\ MAX_MEMORIES_TOTAL = MaxMemories
  /\ last_quest = EmptyTable
  /\ thread_store = EmptyTable
  /\ feedback = <<>>

\* main.py:107: no hook has been issued
WindowInit == RECENT_QUEST_HOOKS = <<>>

\* no handler in flight
ProcInit == proc = [p \in Procs |-> IdleProc]

\* the windows SpecQuest starts from: empty, or holding n hooks issued
\* before, "o" and "p" in turn (PrefillLens: one short of the cap)
PrefillLens == {0, RecentHookCap - 1}
Prefill(n) == [i \in 1..n |-> IF i % 2 = 1 THEN <<"o">> ELSE <<"p">>]

Others == CounterFixed /\ DbInit /\ WindowInit /\ ProcInit
InitRate == RateInit /\ ChaosInit /\ Others
InitChaos == RateFixed /\ ChaosInit /\ Others
InitCounter == RateFixed /\ ChaosInit /\ CounterInit /\ DbInit /\ WindowInit /\ ProcInit
\* the limiter as SpecQuest configures it: only the admin is on the list
RateAdminOnly ==
  /\ now = 0
  /\ RATE_LIMIT_WINDOW = MaxRateLimitWindow
  /\ RATE_LIMIT_MAX = MaxRateLimitMax
  /\ ALLOWED_USER_IDS = {ADMIN_USER_ID}
  /\ RATE_BUCKETS = [u \in Users |-> <<>>]
  /\ rateLog = [u \in Users |-> <<>>]

InitQuest ==
  /\ RateAdminOnly /\ ChaosInit /\ CounterFixed /\ DbInit /\ ProcInit
  /\ RECENT_QUEST_HOOKS \in {Prefill(n) : n \in PrefillLens}

\* the limiter as SpecThread configures it: the admin alone is on the list
\* and may make every request of the run within one window
RateThread ==
  /\ now = 0
  /\ RATE_LIMIT_WINDOW = MaxRateLimitWindow
  /\ RATE_LIMIT_MAX = MaxThreadRequests
  /\ ALLOWED_USER_IDS = {ADMIN_USER_ID}
  /\ RATE_BUCKETS = [u \in Users |-> <<>>]
  /\ rateLog = [u \in Users |-> <<>>]

InitThread ==
  RateThread /\ ChaosInit /\ CounterFixed /\ DbInit /\ WindowInit /\ ProcInit

SpecRateNext ==
  \/ Tick /\ UNCHANGED <<chaosVars, counterVars, RECENT_QUEST_HOOKS, dbVars, proc>>
  \/ \E u \in Users :
       guard_access(u)
         /\ UNCHANGED <<chaosVars, counterVars, RECENT_QUEST_HOOKS, dbVars, proc>>

SpecRate == InitRate /\ [][SpecRateNext]_vars

SpecChaosNext ==
  \/ \E uid \in Users, b \in BaseChoices, sl \in SlopeChoices, m \in MaxChoices :
       cmd_set_chaos(uid, b, sl, m)
         /\ UNCHANGED <<rateVars, counterVars, RECENT_QUEST_HOOKS, dbVars, proc>>
  \/ ChaosRead /\ UNCHANGED <<rateVars, counterVars, RECENT_QUEST_HOOKS, dbVars, proc>>

SpecChaos == InitChaos /\ [][SpecChaosNext]_vars

SpecCounterNext ==
  \E c \in Conns :
    \/ IncUpsert(c) /\ UNCHANGED <<rateVars, chaosVars, RECENT_QUEST_HOOKS, dbVars, proc>>
    \/ IncBusy(c) /\ UNCHANGED <<rateVars, chaosVars, RECENT_QUEST_HOOKS, dbVars, proc>>
    \/ IncCategory(c) /\ UNCHANGED <<rateVars, chaosVars, RECENT_QUEST_HOOKS, dbVars, proc>>
    \/ IncCommit(c) /\ UNCHANGED <<rateVars, chaosVars, RECENT_QUEST_HOOKS, dbVars, proc>>

SpecCounter == InitCounter /\ [][SpecCounterNext]_vars

SpecQuestNext ==
  \/ \E p \in Procs, u \in Users : Start(p, u, "quest", <<>>)
  \/ \E p \in Procs : HUpsertUser(p)
  \/ \E p \in Procs : HIncCounter(p)
  \/ \E p \in Procs : HSnapshot(p)
  \/ \E p \in Procs, g \in GenOutcomes : QuestGen(p, g)
  \/ \E p \in Procs, g \in GenOutcomes : QuestRegen(p, g)
  \/ \E p \in Procs : QuestDeleteMemories(p)
  \/ \E p \in Procs : QuestSetLastQuest(p)
  \/ \E p \in Procs : QuestAddMemory(p)
  \/ \E p \in Procs : HPruneMemories(p)
  \/ \E p \in Procs : QuestClearThread(p)
  \/ \E p \in Procs : QuestAddMessage(p)

SpecQuest == InitQuest /\ [][SpecQuestNext]_vars

\* the texts sent with /advice and /continue
AdviceTexts == { <<"plan">> }
ContinueTexts == { <<>>, <<LongWord>> }

SpecThreadNext ==
  \/ \E p \in Procs, u \in Users, text \in AdviceTexts :
       StartWithin(MaxThreadRequests, p, u, "advice", text)
  \/ \E p \in Procs, u \in Users, text \in ContinueTexts :
       StartWithin(MaxThreadRequests, p, u, "continue", text)
  \/ \E p \in Procs, u \in Users : StartWithin(MaxThreadRequests, p, u, "stop", <<>>)
  \/ \E p \in Procs : HUpsertUser(p)
  \/ \E p \in Procs : HIncCounter(p)
  \/ \E p \in Procs : HTopMemories(p)
  \/ \E p \in Procs : HSnapshot(p)
  \/ \E p \in Procs : HGetLastQuest(p)
  \/ \E p \in Procs, g \in ReplyOutcomes : HGenerateReply(p, g)
  \/ \E p \in Procs : HAddMessage(p)
  \/ \E p \in Procs : HAddMemory(p)
  \/ \E p \in Procs : HPruneMemories(p)
  \/ \E p \in Procs : HSetAlignment(p)
  \/ \E p \in Procs : AdviceSetThread(p)
  \/ \E p \in Procs : ContinueGetThread(p)
  \/ \E p \in Procs : ContinueSetThread(p)
  \/ \E p \in Procs : StopDeleteMemories(p)
  \/ \E p \in Procs : StopClearLastQuest(p)
  \/ \E p \in Procs : StopClearThread(p)

SpecThread == InitThread /\ [][SpecThreadNext]_vars

\* SpecSession: /quest, /stop, /advice and /roll of two users, everyone on
\* the access list; the collaborator answers a quest request with the hook H
InitSession ==
  RateFixed /\ ChaosInit /\ CounterFixed /\ DbInit /\ WindowInit /\ ProcInit

SessionGenOutcomes == {[err |-> FALSE, hook |-> generate_quest_hook(<<"H">>)]}
\* a long request that begins like a quest breadcrumb in another letter case
LowerQuestText == <<"active quest:", " ", LongWord>>
SessionAdviceTexts == { <<>>, LowerQuestText }
RollTexts == { <<>>, <<DiceWord>> }

SpecSessionNext ==
  \/ \E p \in Procs, u \in Users : Start(p, u, "quest", <<>>)
  \/ \E p \in Procs, u \in Users : Start(p, u, "stop", <<>>)
  \/ \E p \in Procs, u \in Users, text \in SessionAdviceTexts :
       Start(p, u, "advice", text)
  \/ \E p \in Procs, u \in Users, text \in RollTexts : Start(p, u, "roll", text)
  \/ \E p \in Procs : HUpsertUser(p)
  \/ \E p \in Procs : HIncCounter(p)
  \/ \E p \in Procs : HSnapshot(p)
  \/ \E p \in Procs, g \in SessionGenOutcomes : QuestGen(p, g)
  \/ \E p \in Procs, g \in SessionGenOutcomes : QuestRegen(p, g)
  \/ \E p \in Procs : QuestDeleteMemories(p)
  \/ \E p \in Procs : QuestSetLastQuest(p)
  \/ \E p \in Procs : QuestAddMemory(p)
  \/ \E p \in Procs : HPruneMemories(p)
  \/ \E p \in Procs : QuestClearThread(p)
  \/ \E p \in Procs : QuestAddMessage(p)
  \/ \E p \in Procs : HTopMemories(p)
  \/ \E p \in Procs : HGetLastQuest(p)
  \/ \E p \in Procs, g \in ReplyOutcomes : HGenerateReply(p, g)
  \/ \E p \in Procs : HAddMessage(p)
  \/ \E p \in Procs : HAddMemory(p)
  \/ \E p \in Procs : HSetAlignment(p)
  \/ \E p \in Procs : AdviceSetThread(p)
  \/ \E p \in Procs : StopDeleteMemories(p)
  \/ \E p \in Procs : StopClearLastQuest(p)
  \/ \E p \in Procs : StopClearThread(p)
  \/ \E p \in Procs : RollAddMessage(p)
  \/ \E p \in Procs : RollClearThread(p)

SpecSession == InitSession /\ [][SpecSessionNext]_vars

\* SpecMemory: /quest and long /advice requests of the admin while the clock
\* runs; main.py:40 reads the cap on a user's memories from the environment
InitMemory ==
  /\ RateAdminOnly /\ ChaosInit /\ CounterFixed /\ WindowInit /\ ProcInit
  /\ users = EmptyTable
  /\ messages = <<>>
  /\ memories = {}
  /\ memSeq = 0
  /\ MAX_MEMORIES_TOTAL = TightMemories
  /\ last_quest = EmptyTable
  /\ thread_store = EmptyTable
  /\ feedback = <<>>

MemoryAdviceTexts == { <<LongWord>> }

\* the collaborator answers every request of SpecMemory
MemoryReplyOutcomes == {g \in ReplyOutcomes : ~g.err}

SpecMemoryNext ==
  \/ now < MaxMemoryTime /\ Tick
       /\ UNCHANGED <<chaosVars, counterVars, RECENT_QUEST_HOOKS, dbVars, proc>>
  \/ \E p \in Procs, u \in Users : Start(p, u, "quest", <<>>)
  \/ \E p \in Procs, u \in Users, text \in MemoryAdviceTexts :
       Start(p, u, "advice", text)
  \/ \E p \in Procs : HUpsertUser(p)
  \/ \E p \in Procs : HIncCounter(p)
  \/ \E p \in Procs : HSnapshot(p)
  \/ \E p \in Procs, g \in SessionGenOutcomes : QuestGen(p, g)
  \/ \E p \in Procs, g \in SessionGenOutcomes : QuestRegen(p, g)
  \/ \E p \in Procs : QuestDeleteMemories(p)
  \/ \E p \in Procs : QuestSetLastQuest(p)
  \/ \E p \in Procs : QuestAddMemory(p)
  \/ \E p \in Procs : HPruneMemories(p)
  \/ \E p \in Procs : QuestClearThread(p)
  \/ \E p \in Procs : QuestAddMessage(p)
  \/ \E p \in Procs : HTopMemories(p)
  \/ \E p \in Procs : HGetLastQuest(p)
  \/ \E p \in Procs, g \in MemoryReplyOutcomes : HGenerateReply(p, g)
  \/ \E p \in Procs : HAddMessage(p)
  \/ \E p \in Procs : HAddMemory(p)
  \/ \E p \in Procs : HSetAlignment(p)
  \/ \E p \in Procs : AdviceSetThread(p)

SpecMemory == InitMemory /\ [][SpecMemoryNext]_vars

\* SpecLoad: /continue requests of the admin over a user_state row that
\* holds any text: db.get_thread hands load_thread what the row holds
\* the entries of a stored list: an exchange, an object without "bot", a string
StoredItems ==
  { JsonObj([user |-> JsonStr(<<"q">>), bot |-> JsonStr(<<"a">>)]),
    JsonObj([user |-> JsonStr(<<"q">>)]),
    JsonStr(<<"x">>) }
\* the texts of the row: "", a text json.loads rejects, and JSON documents:
\* a string, an object, and the lists of up to MaxItems entries
StoredRaws ==
  { [kind |-> "empty", doc |-> JsonList(<<>>)],
    [kind |-> "invalid", doc |-> JsonList(<<>>)] }
    \cup { [kind |-> "json", doc |-> d] : d \in StoredItems }
    \cup { [kind |-> "json", doc |-> JsonList(items)] :
             items \in UNION {[1..n -> StoredItems] : n \in 0..MaxItems} }

InitLoad ==
  /\ RateAdminOnly /\ ChaosInit /\ CounterFixed /\ WindowInit /\ ProcInit
  /\ users = EmptyTable
  /\ messages = <<>>
  /\ memories = {}
  /\ memSeq = 0
  /\ MAX_MEMORIES_TOTAL = MaxMemories
  /\ last_quest = EmptyTable
  /\ feedback = <<>>
  /\ thread_store \in {EmptyTable}
                        \cup {SlotSet(EmptyTable, ADMIN_USER_ID, raw) : raw \in StoredRaws}

LoadTexts == { <<"more">> }

SpecLoadNext ==
  \/ \E p \in Procs, u \in Users, text \in LoadTexts : Start(p, u, "continue", text)
  \/ \E p \in Procs : HUpsertUser(p)
  \/ \E p \in Procs : HIncCounter(p)
  \/ \E p \in Procs : ContinueGetThread(p)
  \/ \E p \in Procs : HTopMemories(p)
  \/ \E p \in Procs : HSnapshot(p)
  \/ \E p \in Procs : HGetLastQuest(p)
  \/ \E p \in Procs, g \in MemoryReplyOutcomes : HGenerateReply(p, g)
  \/ \E p \in Procs : HAddMessage(p)
  \/ \E p \in Procs : HSetAlignment(p)
  \/ \E p \in Procs : ContinueSetThread(p)

SpecLoad == InitLoad /\ [][SpecLoadNext]_vars

\* SpecDaily: /roll and /stats of the admin and rating callbacks of both
\* users, from the last second of a day into the next day
InitDaily ==
  /\ now = DayLength - 1
  /\ RATE_LIMIT_WINDOW = MaxRateLimitWindow
  /\ RATE_LIMIT_MAX = MaxRateLimitMax
  /\ ALLOWED_USER_IDS = {ADMIN_USER_ID}
  /\ RATE_BUCKETS = [u \in Users |-> <<>>]
  /\ rateLog = [u \in Users |-> <<>>]
  /\ ChaosInit /\ CounterFixed /\ DbInit /\ WindowInit /\ ProcInit

SpecDailyNext ==
  \/ now < DayLength /\ Tick
       /\ UNCHANGED <<chaosVars, counterVars, RECENT_QUEST_HOOKS, dbVars, proc>>
  \/ \E p \in Procs, u \in Users, text \in RollTexts : Start(p, u, "roll", text)
  \/ \E p \in Procs, u \in Users : StartStats(p, u)
  \/ \E p \in Procs, u \in Users, rating \in Ratings : StartRate(p, u, rating)
  \/ \E p \in Procs : HUpsertUser(p)
  \/ \E p \in Procs : HIncCounter(p)
  \/ \E p \in Procs : RollAddMessage(p)
  \/ \E p \in Procs : RollClearThread(p)
  \/ \E p \in Procs : StatsGetStats(p)
  \/ \E p \in Procs : StatsSnapshot(p)
  \/ \E p \in Procs : StatsReply(p)
  \/ \E p \in Procs, id \in RatedIds : RateAddFeedback(p, id)
  \/ \E p \in Procs : RateIncVotes(p)

SpecDaily == InitDaily /\ [][SpecDailyNext]_vars

\* SpecLive: /quest, /advice and /continue of the admin; the event loop
\* runs every handler that is ready, so a handler in flight takes its next
\* step sooner or later
LiveGenOutcomes ==
  {[err |-> TRUE, hook |-> <<>>]} \cup SessionGenOutcomes
LiveTexts == { <<>> }

\* a step of the handler p
HandlerStep(p) ==
  \/ HUpsertUser(p)
  \/ HIncCounter(p)
  \/ HSnapshot(p)
  \/ \E g \in LiveGenOutcomes : QuestGen(p, g)
  \/ \E g \in LiveGenOutcomes : QuestRegen(p, g)
  \/ QuestDeleteMemories(p)
  \/ QuestSetLastQuest(p)
  \/ QuestAddMemory(p)
  \/ HPruneMemories(p)
  \/ QuestClearThread(p)
  \/ QuestAddMessage(p)
  \/ HTopMemories(p)
  \/ HGetLastQuest(p)
  \/ \E g \in ReplyOutcomes : HGenerateReply(p, g)
  \/ HAddMessage(p)
  \/ HAddMemory(p)
  \/ HSetAlignment(p)
  \/ AdviceSetThread(p)
  \/ ContinueGetThread(p)
  \/ ContinueSetThread(p)

\* the handlers of SpecLive run one after the other
LiveProcs == {"p1"}

SpecLiveNext ==
  \/ \E p \in LiveProcs, u \in Users :
       StartWithin(MaxThreadRequests, p, u, "quest", <<>>)
  \/ \E p \in LiveProcs, u \in Users, text \in LiveTexts :
       StartWithin(MaxThreadRequests, p, u, "advice", text)
  \/ \E p \in LiveProcs, u \in Users, text \in LiveTexts :
       StartWithin(MaxThreadRequests, p, u, "continue", text)
  \/ \E p \in LiveProcs : HandlerStep(p)

SpecLive ==
  /\ InitThread /\ [][SpecLiveNext]_vars
  /\ \A p \in LiveProcs : WF_vars(HandlerStep(p))

\* SpecFail: /advice and /continue of the admin whose generation may fail,
\* in a process started over the store an earlier /advice left behind
EarlierThread == <<[user |-> <<"q">>, bot |-> <<"a">>]>>
InitFail ==
  /\ RateThread /\ ChaosInit /\ WindowInit /\ ProcInit
  /\ daily_counters = inc_counter_result(EmptyTable, local_day_key(0), "advice")
  /\ dbWriter = NoConn
  /\ txCounters = EmptyTable
  /\ incCall = [c \in Conns |-> [day |-> "d1", kind |-> "other", pc |-> "committed"]]
  /\ report = ReportOff
  /\ users = upsert_user_result(EmptyTable, ADMIN_USER_ID, 0)
  /\ messages = add_message_result(<<>>, ADMIN_USER_ID, 0, "advice")
  /\ memories = {}
  /\ memSeq = 0
  /\ MAX_MEMORIES_TOTAL = MaxMemories
  /\ last_quest = EmptyTable
  /\ feedback = <<>>
  /\ thread_store = SlotSet(EmptyTable, ADMIN_USER_ID,
                            json_dumps(trim_thread(EarlierThread)))

SpecFailNext ==
  \/ \E p \in Procs, u \in Users, text \in AdviceTexts : Start(p, u, "advice", text)
  \/ \E p \in Procs, u \in Users, text \in ContinueTexts : Start(p, u, "continue", text)
  \/ \E p \in Procs : HUpsertUser(p)
  \/ \E p \in Procs : HIncCounter(p)
  \/ \E p \in Procs : HTopMemories(p)
  \/ \E p \in Procs : HSnapshot(p)
  \/ \E p \in Procs : HGetLastQuest(p)
  \/ \E p \in Procs, g \in ReplyOutcomes : HGenerateReply(p, g)
  \/ \E p \in Procs : HAddMessage(p)
  \/ \E p \in Procs : HAddMemory(p)
  \/ \E p \in Procs : HPruneMemories(p)
  \/ \E p \in Procs : HSetAlignment(p)
  \/ \E p \in Procs : AdviceSetThread(p)
  \/ \E p \in Procs : ContinueGetThread(p)
  \/ \E p \in Procs : ContinueSetThread(p)

SpecFail == InitFail /\ [][SpecFailNext]_vars

\* SpecTally: /quest, /advice, /continue and /roll of the admin, from the
\* last second of a day into the next day
TallyTexts == { <<>> }

SpecTallyNext ==
  \/ now < DayLength /\ Tick
       /\ UNCHANGED <<chaosVars, counterVars, RECENT_QUEST_HOOKS, dbVars, proc>>
  \/ \E p \in Procs, u \in Users : Start(p, u, "quest", <<>>)
  \/ \E p \in Procs, u \in Users, text \in TallyTexts : Start(p, u, "advice", text)
  \/ \E p \in Procs, u \in Users, text \in TallyTexts : Start(p, u, "continue", text)
  \/ \E p \in Procs, u \in Users, text \in RollTexts : Start(p, u, "roll", text)
  \/ \E p \in Procs : HUpsertUser(p)
  \/ \E p \in Procs : HIncCounter(p)
  \/ \E p \in Procs : HSnapshot(p)
  \/ \E p \in Procs, g \in SessionGenOutcomes : QuestGen(p, g)
  \/ \E p \in Procs, g \in SessionGenOutcomes : QuestRegen(p, g)
  \/ \E p \in Procs : QuestDeleteMemories(p)
  \/ \E p \in Procs : QuestSetLastQuest(p)
  \/ \E p \in Procs : QuestAddMemory(p)
  \/ \E p \in Procs : HPruneMemories(p)
  \/ \E p \in Procs : QuestClearThread(p)
  \/ \E p \in Procs : QuestAddMessage(p)
  \/ \E p \in Procs : HTopMemories(p)
  \/ \E p \in Procs : HGetLastQuest(p)
  \/ \E p \in Procs, g \in ReplyOutcomes : HGenerateReply(p, g)
  \/ \E p \in Procs : HAddMessage(p)
  \/ \E p \in Procs : HSetAlignment(p)
  \/ \E p \in Procs : AdviceSetThread(p)
  \/ \E p \in Procs : ContinueGetThread(p)
  \/ \E p \in Procs : ContinueSetThread(p)
  \/ \E p \in Procs : RollAddMessage(p)
  \/ \E p \in Procs : RollClearThread(p)

SpecTally == InitDaily /\ [][SpecTallyNext]_vars

\* SpecVotes: MaxConns calls issued at once from an empty store, each an
\* inc_counter of a handler (main.py:354, 430, 537, 595) or an inc_votes of
\* the rating callback (main.py:662), statement by statement
VoteKinds == {"up", "down"}
\* kinds the handlers pass; "quest" goes the way of "roll", by its own column
HandlerKinds == {"advice", "roll"}

\* db.py:151-157: the upsert of inc_votes opens the write transaction
VotesUpsert(c) ==
  /\ incCall[c].pc = "start"
  /\ incCall[c].kind \in VoteKinds
  /\ dbWriter = NoConn
  /\ dbWriter' = c
  /\ txCounters' = inc_votes_result(daily_counters, incCall[c].day,
                                    IF incCall[c].kind = "up" THEN 1 ELSE 0,
                                    IF incCall[c].kind = "down" THEN 1 ELSE 0)
  /\ incCall' = [incCall EXCEPT ![c].pc = "upserted"]
  /\ UNCHANGED <<daily_counters, report>>

InitVotes ==
  /\ RateFixed /\ ChaosInit /\ CounterEmpty /\ DbInit /\ WindowInit /\ ProcInit
  /\ incCall \in [Conns -> [day : Days, kind : HandlerKinds \cup VoteKinds,
                             pc : {"start"}]]

SpecVotesNext ==
  \E c \in Conns :
    \/ IncUpsert(c) /\ UNCHANGED <<rateVars, chaosVars, RECENT_QUEST_HOOKS, dbVars, proc>>
    \/ VotesUpsert(c) /\ UNCHANGED <<rateVars, chaosVars, RECENT_QUEST_HOOKS, dbVars, proc>>
    \/ IncBusy(c) /\ UNCHANGED <<rateVars, chaosVars, RECENT_QUEST_HOOKS, dbVars, proc>>
    \/ IncCategory(c) /\ UNCHANGED <<rateVars, chaosVars, RECENT_QUEST_HOOKS, dbVars, proc>>
    \/ IncCommit(c) /\ UNCHANGED <<rateVars, chaosVars, RECENT_QUEST_HOOKS, dbVars, proc>>

SpecVotes == InitVotes /\ [][SpecVotesNext]_vars

(***************************************************************************)
(* The daily report (main.py:669-707).  SpecReport counts time in whole    *)
(* hours: `now` is the real hour since the first local midnight, and the   *)
(* local clock of TZ follows it up to one change of the UTC offset.        *)
(***************************************************************************)
\* hours of a local day
ReportDayLength == 4
\* real hours SpecReport runs for
MaxReportTime == 11
\* main.py:32, the last hour of the local day
DAILY_REPORT_HOUR == ReportDayLength - 1
\* the real hour at which the UTC offset of TZ changes (never the report hour)
ShiftAt == ReportDayLength + 1
\* main.py:29-30: the offset changes of a zone: back an hour, none, forward
Shifts == {-1, 0, 1}

\* datetime.now(TZ) at real hour t, as local hours since the first midnight
Wall(t) == t + (IF t >= ShiftAt THEN report.shift ELSE 0)
WallHour(t) == Wall(t) % ReportDayLength
WallDay(t) == Wall(t) \div ReportDayLength
\* main.py:698: now.replace(hour=DAILY_REPORT_HOUR, minute=0, ...)
ReplaceHour(t) == WallDay(t) * ReportDayLength + DAILY_REPORT_HOUR
\* main.py:698-700
ReportTarget(t) ==
  IF ReplaceHour(t) <= Wall(t) THEN ReplaceHour(t) + ReportDayLength
  ELSE ReplaceHour(t)
\* main.py:702: both datetimes carry the same tzinfo, so the difference is
\* taken between the local clock readings
SleepHours(t) == ReportTarget(t) - Wall(t)

\* main.py:156-158 on the local clock of SpecReport
ReportDayKeys == <<"d1", "d2", "d3", "d4">>
report_day_key(t) == ReportDayKeys[WallDay(t) + 1]
\* db.py:166-174, for the records of local day d
compute_unique_users_today(table, d) ==
  Cardinality({ table[i].user_id :
                  i \in { j \in 1..Len(table) : local_day_key(table[j].ts) = d } })
\* db.py:184-188: an UPDATE, which creates no row
set_unique_users_result(table, day, n) ==
  [d \in DOMAIN table |->
     IF d = day THEN [table[d] EXCEPT !.unique_users = n] ELSE table[d]]

ReportFrame ==
  UNCHANGED <<RATE_LIMIT_WINDOW, RATE_LIMIT_MAX, ALLOWED_USER_IDS, RATE_BUCKETS,
              rateLog, chaosVars, dbWriter, txCounters, incCall,
              RECENT_QUEST_HOOKS, dbVars, proc>>

\* main.py:697-702 up to the await
ReportCompute ==
  /\ report.pc = "compute"
  /\ report' = [report EXCEPT !.pc = "sleep", !.since = now,
                              !.wake = now + SleepHours(now)]
  /\ UNCHANGED <<now, daily_counters>>
  /\ ReportFrame

\* an hour passes while the task sleeps
ReportTick ==
  /\ report.pc = "sleep"
  /\ now < report.wake
  /\ now < MaxReportTime
  /\ now' = now + 1
  /\ UNCHANGED <<report, daily_counters>>
  /\ ReportFrame

\* main.py:702: asyncio.sleep returns once its delay has passed
ReportWake ==
  /\ report.pc = "sleep"
  /\ now >= report.wake
  /\ report' = [report EXCEPT !.pc = "send"]
  /\ UNCHANGED <<now, daily_counters>>
  /\ ReportFrame

\* main.py:669-693: the store calls go through (ok) and the report is sent,
\* or one of them raises, which nothing catches, and the task ends
send_daily_report(ok) ==
  /\ report.pc = "send"
  /\ IF ok
     THEN /\ daily_counters' =
               set_unique_users_result(daily_counters, report_day_key(now),
                 compute_unique_users_today(messages, report_day_key(now)))
          /\ report' = [report EXCEPT !.pc = "compute",
                                      !.sent = Append(@, now)]
     ELSE /\ report' = [report EXCEPT !.pc = "dead"]
          /\ UNCHANGED daily_counters
  /\ UNCHANGED now
  /\ ReportFrame

\* main.py:705-707: the process is started again, and the task with it
ReportRestart ==
  /\ report.pc \in {"sleep", "send", "dead"}
  /\ report' = [report EXCEPT !.pc = "compute"]
  /\ UNCHANGED <<now, daily_counters>>
  /\ ReportFrame

\* the task is created at any hour of the first local day
InitReport ==
  /\ now \in 0..(ReportDayLength - 1)
  /\ RATE_LIMIT_WINDOW = MaxRateLimitWindow
  /\ RATE_LIMIT_MAX = MaxRateLimitMax
  /\ ALLOWED_USER_IDS = {ADMIN_USER_ID}
  /\ RATE_BUCKETS = [u \in Users |-> <<>>]
  /\ rateLog = [u \in Users |-> <<>>]
  /\ ChaosInit
  /\ daily_counters = EmptyTable
  /\ dbWriter = NoConn
  /\ txCounters = EmptyTable
  /\ incCall = [c \in Conns |-> [day |-> "d1", kind |-> "other", pc |-> "committed"]]
  /\ \E s \in Shifts :
       report = [pc |-> "compute", wake |-> 0, since |-> 0, sent |-> <<>>,
                 shift |-> s]
  /\ DbInit
  /\ WindowInit
  /\ ProcInit

SpecReportNext ==
  \/ ReportCompute
  \/ ReportTick
  \/ ReportWake
  \/ \E ok \in BOOLEAN : send_daily_report(ok)
  \/ ReportRestart

SpecReport == InitReport /\ [][SpecReportNext]_vars

(***************************************************************************)
(* Claims on the rate limiter (SpecRate).                                  *)
(***************************************************************************)
LastCall(u) == rateLog[u][Len(rateLog[u])]
\* the calls of u that returned true with a timestamp in [s, s + W]
AdmittedIn(u, s) ==
  {i \in DOMAIN rateLog[u] :
     rateLog[u][i].ok /\ rateLog[u][i].ts \in s..(s + RATE_LIMIT_WINDOW)}

\* C1: for every user, the calls that returned true with timestamps inside
\* any window [s, s + RATE_LIMIT_WINDOW] number at most RATE_LIMIT_MAX.
C1_AtMostMaxPerWindow ==
  \A u \in Users : \A s \in 0..MaxTime :
    Cardinality(AdmittedIn(u, s)) <= RATE_LIMIT_MAX

\* a user filled a window, was refused in it, and was admitted after it
C1_Witness ==
  \E u \in Users :
    /\ RATE_LIMIT_MAX = 2
    /\ Cardinality({i \in DOMAIN rateLog[u] : rateLog[u][i].ok}) = 3
    /\ \E i \in DOMAIN rateLog[u] : ~rateLog[u][i].ok

\* C5: a call made while the bucket holds RATE_LIMIT_MAX timestamps that are
\* at most RATE_LIMIT_WINDOW old is refused, and a call made once the oldest
\* timestamp of the bucket is more than RATE_LIMIT_WINDOW old is admitted.
C5_FullRejectsAgedAdmits ==
  [][\A u \in Users :
       rateLog'[u] # rateLog[u] =>
         LET b == RATE_BUCKETS[u]
             live == {i \in DOMAIN b : now - b[i] <= RATE_LIMIT_WINDOW}
             ok == rateLog'[u][Len(rateLog'[u])].ok
         IN  /\ Cardinality(live) >= RATE_LIMIT_MAX => ~ok
             /\ (b # <<>> /\ now - b[1] > RATE_LIMIT_WINDOW) => ok]_vars

\* a user with a full bucket was refused and then, the oldest timestamp
\* having aged out, admitted
C5_Witness ==
  \E u \in Users : \E i \in DOMAIN rateLog[u] :
    /\ RATE_LIMIT_MAX = 2
    /\ i + 1 \in DOMAIN rateLog[u]
    /\ ~rateLog[u][i].ok
    /\ rateLog[u][i + 1].ok
    /\ Len(RATE_BUCKETS[u]) = RATE_LIMIT_MAX

\* C6: a call that returns false leaves the caller's bucket as it was.
C6_RejectLeavesBucket ==
  [][\A u \in Users :
       (rateLog'[u] # rateLog[u] /\ ~rateLog'[u][Len(rateLog'[u])].ok)
         => RATE_BUCKETS'[u] = RATE_BUCKETS[u]]_vars

\* a call was refused after time had passed since the bucket's oldest entry
C6_Witness ==
  \E u \in Users :
    /\ rateLog[u] # <<>>
    /\ ~LastCall(u).ok
    /\ RATE_BUCKETS[u] # <<>>
    /\ LastCall(u).ts > RATE_BUCKETS[u][1]

(***************************************************************************)
(* Claims on the chaos meter (SpecChaos).                                  *)
(***************************************************************************)
\* C7: under the configuration in force, compute_chaos(count) lies in
\* [0.2, CHAOS_MAX] for every count >= 0.
C7_ChaosInRange ==
  \A c \in 0..MaxCount :
    compute_chaos(c) >= ChaosFloor /\ compute_chaos(c) <= CHAOS_MAX

\* C8: under the configuration in force, compute_chaos is non-decreasing in
\* the interaction count.
C8_ChaosMonotone ==
  \A c1 \in 0..MaxCount, c2 \in 0..MaxCount :
    c1 <= c2 => compute_chaos(c1) <= compute_chaos(c2)

(***************************************************************************)
(* Claims on the daily counters (SpecCounter).                             *)
(***************************************************************************)
Committed(day) == {c \in Conns : incCall[c].pc = "committed" /\ incCall[c].day = day}
CommittedKind(day, kind) == {c \in Committed(day) : incCall[c].kind = kind}
RowOf(day) == IF day \in DOMAIN daily_counters THEN daily_counters[day] ELSE ZeroRow

\* C4: in every committed state of the store, a day's interactions is the
\* number of inc_counter calls committed for that day and each category
\* counter is the number committed for that day and kind: concurrent calls
\* lose no update and no call's total is visible without its category.  With
\* n calls of one day and one recognized kind, all committed, both are n.
C4_NoLostIncrement ==
  \A d \in Days :
    /\ RowOf(d).interactions = Cardinality(Committed(d))
    /\ RowOf(d).advice_count = Cardinality(CommittedKind(d, "advice"))
    /\ RowOf(d).quest_count = Cardinality(CommittedKind(d, "quest"))
    /\ RowOf(d).roll_count = Cardinality(CommittedKind(d, "roll"))

\* all the calls were for one day and for "advice", and all have committed
C4_Witness ==
  /\ \A c \in Conns : incCall[c] = [day |-> "d1", kind |-> "advice", pc |-> "committed"]
  /\ "d1" \in DOMAIN daily_counters
  /\ daily_counters["d1"].interactions = MaxConns
  /\ daily_counters["d1"].advice_count = MaxConns

(***************************************************************************)
(* Claims on /quest (SpecQuest).                                           *)
(***************************************************************************)
Fallbacks == {QUEST_FALLBACKS[i] : i \in DOMAIN QUEST_FALLBACKS}
\* the step of p in which cmd_quest accepts a hook (main.py:377-381)
Accepts(p) == proc[p].pc \in {"q_gen", "q_regen"} /\ proc'[p].pc = "q_delmem"
\* p holds an accepted hook
HasAccepted(p) ==
  proc[p].pc \in {"q_delmem", "q_setquest", "q_addmem", "q_prune", "q_clear", "q_addmsg"}
\* p has passed set_last_quest
HasInstalled(p) == proc[p].pc \in {"q_addmem", "q_prune", "q_clear", "q_addmsg"}

\* C2: when the generator answered the same hook H to the first call and to
\* every regeneration, H is in the window and some fallback is not, the
\* hook the handler accepts is not H (as the window compares hooks) and is
\* one of the fallbacks that are not in the window.
C2_DuplicateNotInstalled ==
  [][\A p \in Procs :
       LET gens == proc'[p].gens
           H == gens[1].hook
       IN  ( /\ Accepts(p)
             /\ \A i \in DOMAIN gens : ~gens[i].err /\ gens[i].hook = H
             /\ H # <<>>
             /\ quest_recently_used(H)
             /\ \E f \in Fallbacks : ~quest_recently_used(f) )
           => /\ HookKey(proc'[p].hook) # HookKey(H)
              /\ proc'[p].hook \in {f \in Fallbacks : ~quest_recently_used(f)}]_vars

\* C9: every hook cmd_quest accepts is non-empty, and once the handler has
\* passed set_last_quest the user's active quest is a non-empty hook,
\* whatever the generation calls did.
C9_QuestHookNonEmpty ==
  /\ \A p \in Procs : HasAccepted(p) => proc[p].hook # <<>>
  /\ \A p \in Procs :
       HasInstalled(p) =>
         proc[p].uid \in DOMAIN last_quest /\ last_quest[proc[p].uid] # <<>>
  /\ \A u \in DOMAIN last_quest : last_quest[u] # <<>>

\* a request installed a fallback: its generation calls raised, returned
\* nothing but markup, or used up the attempts on text that cleaned to nothing
C9_Witness ==
  \E p \in Procs :
    /\ HasInstalled(p)
    /\ proc[p].uid \in DOMAIN last_quest
    /\ last_quest[proc[p].uid] = proc[p].hook
    /\ proc[p].hook \in Fallbacks

\* C10: the window never holds more than 20 entries; it changes only when a
\* hook is accepted, and then the hook, lower-cased and trimmed, is put at
\* the tail and, if that makes 21 entries, the head alone is removed.
C10_WindowFifo ==
  /\ Len(RECENT_QUEST_HOOKS) <= 20
  /\ [][/\ Len(RECENT_QUEST_HOOKS') <= 20
        /\ RECENT_QUEST_HOOKS' # RECENT_QUEST_HOOKS => \E q \in Procs : Accepts(q)
        /\ \A p \in Procs :
             Accepts(p) =>
               LET key == Strip(Lower(proc'[p].hook))
                   n == Len(RECENT_QUEST_HOOKS)
               IN  /\ key # <<>>
                   /\ RECENT_QUEST_HOOKS' =
                        IF n < 20 THEN RECENT_QUEST_HOOKS \o <<key>>
                        ELSE SubSeq(RECENT_QUEST_HOOKS, 2, n) \o <<key>>]_vars

\* the window was full, a hook was accepted, and the oldest entry left
C10_Witness ==
  /\ Len(RECENT_QUEST_HOOKS) = 20
  /\ RECENT_QUEST_HOOKS[1] = <<"p">>
  /\ \E p \in Procs :
       proc[p].pc = "q_delmem" /\ RECENT_QUEST_HOOKS[20] = HookKey(proc[p].hook)

(***************************************************************************)
(* Claims on the conversation thread (SpecThread).                         *)
(***************************************************************************)
\* the thread a handler would load for user u from the store
StoredThread(u) == load_thread(SlotValue(thread_store, u, NoRaw))
\* the entries of the list stored for user u, well-formed or not
StoredEntries(u) == SlotValue(thread_store, u, NoRaw).doc.v
\* the step of p in which cmd_continue stores the thread
StoresContinued(p) == proc[p].pc = "c_setthread" /\ proc'[p].pc = "idle"

\* C3: the thread stored for a user never holds more than 3 exchanges; when
\* /continue has loaded a thread of 3 exchanges and its generation
\* succeeded, it stores exactly the 2nd and 3rd exchange it loaded followed
\* by the new exchange.
C3_ThreadBounded ==
  /\ \A u \in Users : Len(StoredEntries(u)) <= 3 /\ Len(StoredThread(u)) <= 3
  /\ [][/\ \A u \in Users :
             Len(StoredEntries(u)') <= 3 /\ Len(StoredThread(u)') <= 3
        /\ \A p \in Procs, u \in Users :
             StoresContinued(p) /\ proc[p].uid = u /\ Len(proc[p].thread) = 3 =>
               LET old == proc[p].thread
                   new == [user |-> IF proc[p].text # <<>> THEN proc[p].text
                                    ELSE proc[p].question,
                           bot |-> proc[p].reply]
               IN  /\ StoredThread(u)' = <<old[2], old[3], new>>
                   /\ Len(StoredEntries(u)') = 3]_vars

\* three exchanges are stored, the last one made by a /continue without
\* text whose prompt quotes an exchange e1 that is stored no more, followed
\* by the two exchanges stored before the last
C3_Witness ==
  \E u \in Users, q \in AdviceTexts, r \in {g.reply : g \in ReplyOutcomes} :
    LET t == StoredThread(u)
        e1 == [user |-> q, bot |-> r]
    IN  /\ Len(t) = 3
        /\ \A i \in 1..3 : t[i] # e1
        /\ t[3].user = build_thread_prompt(<<e1, t[1], t[2]>>, <<>>, <<>>)

(***************************************************************************)
(* Claims on the quest state and the memories (SpecSession, SpecQuest).    *)
(***************************************************************************)
\* the text begins with exactly the tokens of prefix
StartsWith(text, prefix) ==
  Len(text) >= Len(prefix) /\ SubSeq(text, 1, Len(prefix)) = prefix
\* the rows of user u whose snippet begins with "Active quest:"
QuestSnippets(u) ==
  {m \in memories : m.user_id = u /\ StartsWith(m.snippet, ActiveQuestPrefix)}
\* the step in which the /quest handler p ends
CompletesQuest(p) == proc[p].pc = "q_addmsg" /\ proc'[p].pc = "idle"

\* C11: when a /quest handler of user u ends and no other admitted request
\* of u was in flight with it, u's active quest is the hook the handler
\* accepted, on which clean_quest_hook changes nothing; exactly one snippet
\* of u begins with "Active quest:", it is "Active quest: <hook>" with
\* importance 3; and u's stored thread is empty.
C11_QuestInstalls ==
  [][\A p \in Procs, u \in Users :
       CompletesQuest(p) /\ proc[p].uid = u /\ proc[p].alone =>
         /\ u \in DOMAIN last_quest'
         /\ last_quest'[u] = proc[p].hook
         /\ clean_quest_hook(proc[p].hook) = proc[p].hook
         /\ \E m \in QuestSnippets(u)' :
              /\ QuestSnippets(u)' = {m}
              /\ m.snippet = <<"Active quest:", " ">> \o proc[p].hook
              /\ m.importance = 3
         /\ StoredThread(u)' = <<>>]_vars

\* a /quest of u, alone in flight, has done all but its last step after an
\* /advice of u had been answered (and so had stored a thread) or after a
\* /quest of u had left a breadcrumb
C11_Witness ==
  \E p \in Procs :
    /\ proc[p].pc = "q_addmsg" /\ proc[p].alone
    /\ Len(messages) = 1
    /\ messages[1].user_id = proc[p].uid
    /\ messages[1].kind = "advice"
    /\ StoredThread(proc[p].uid) = <<>>
    /\ Cardinality(QuestSnippets(proc[p].uid)) = 1

\* the step in which the /stop handler p ends
CompletesStop(p) == proc[p].pc = "s_clearthread" /\ proc'[p].pc = "idle"
\* a step of the /stop handler p
StopStep(p) ==
  proc[p].pc \in {"s_delmem", "s_clearquest", "s_clearthread"} /\ proc'[p] # proc[p]
\* what the store holds for user v
StateOf(v) ==
  [quest |-> SlotValue(last_quest, v, <<>>),
   memories |-> {m \in memories : m.user_id = v},
   thread |-> SlotValue(thread_store, v, NoRaw)]

\* C12: when a /stop handler of user u ends, u has no active quest, no
\* snippet beginning with "Active quest:" and an empty thread; and no step
\* of the handler changes what the store holds for another user.
C12_StopClears ==
  [][\A p \in Procs, u \in Users :
       /\ CompletesStop(p) /\ proc[p].uid = u =>
            /\ u \notin DOMAIN last_quest'
            /\ QuestSnippets(u)' = {}
            /\ StoredThread(u)' = <<>>
       /\ StopStep(p) /\ proc[p].uid = u =>
            \A v \in Users \ {u} : StateOf(v)' = StateOf(v)]_vars

\* a step in which the handler p runs delete_memories_with_prefix
DeletesByPrefix(p) ==
  \/ proc[p].pc = "q_delmem" /\ proc'[p].pc = "q_setquest"
  \/ proc[p].pc = "s_delmem" /\ proc'[p].pc = "s_clearquest"

\* C13: delete_memories_with_prefix(u, "Active quest:") removes the rows of
\* u whose snippet begins with exactly "Active quest:" and no other row: not
\* a row of u that begins with "active quest:", not a row of another user.
C13_DeletesLiteralPrefix ==
  [][\A p \in Procs, u \in Users :
       DeletesByPrefix(p) /\ proc[p].uid = u =>
         memories' = memories \ QuestSnippets(u)]_vars

(***************************************************************************)
(* Claims on the cap of a user's memories (SpecMemory).                    *)
(***************************************************************************)
UserMemories(u) == {m \in memories : m.user_id = u}
InsertPcs == {"q_addmem", "a_addmem", "c_addmem"}
PrunePcs == {"q_prune", "a_prune", "c_prune"}
\* the handlers of u that have inserted a memory and not yet pruned
AwaitingPrune(u) == {p \in Procs : proc[p].uid = u /\ proc[p].pc \in PrunePcs}
\* the handler p ends, having inserted a memory on its way
CompletesInserter(p) ==
  /\ proc'[p].pc = "idle"
  /\ \/ proc[p].pc = "q_addmsg"
     \/ proc[p].pc = "a_setthread" /\ CharLen(proc[p].question) > 80

HasBox(text) == \E i \in DOMAIN text : text[i] = Box

\* C15: no achievement box emitted by the collaborator is in the
\* active-quest slot, in a memory snippet or in a stored thread, and none is
\* in the question or the thread prompt a handler hands to the collaborator.
C15_NoBoxReplayed ==
  /\ \A u \in DOMAIN last_quest : ~HasBox(last_quest[u])
  /\ \A m \in memories : ~HasBox(m.snippet)
  /\ \A u \in Users : \A i \in DOMAIN StoredThread(u) :
       ~HasBox(StoredThread(u)[i].user) /\ ~HasBox(StoredThread(u)[i].bot)
  /\ \A p \in Procs :
       proc[p].pc \in {"a_gen", "c_gen"} =>
         /\ ~HasBox(proc[p].question) /\ ~HasBox(proc[p].quest)
         /\ \A i \in DOMAIN proc[p].mems : ~HasBox(proc[p].mems[i])

\* all but the last entry of a thread
Front(thread) == SubSeq(thread, 1, Len(thread) - 1)

\* C16: the store of /continue acts on the thread as it is stored at that
\* moment, as in a serial order of the handlers: the exchanges stored before
\* it are kept (up to the trim) in front of the new exchange, and a thread
\* that /quest or /stop has cleared in the meantime stays cleared.
C16_ThreadLinearizable ==
  [][\A p \in Procs, u \in Users :
       StoresContinued(p) /\ proc[p].uid = u =>
         LET cur == trim_thread(StoredThread(u))
         IN  IF cur = <<>> THEN StoredThread(u)' = <<>>
             ELSE /\ StoredThread(u)' # <<>>
                  /\ Front(StoredThread(u)') =
                       Front(trim_thread(Append(cur, [user |-> <<>>, bot |-> <<>>])))]_vars

(***************************************************************************)
(* Claims on concurrent /quest handlers (SpecQuest).                       *)
(***************************************************************************)
\* C17: once every /quest handler has ended, a user has at most one
\* snippet that starts with "Active quest:", and its text is "Active quest: "
\* followed by the hook in the user's active-quest slot.
C17_OneBreadcrumb ==
  (\A p \in Procs : Free(p)) =>
    \A u \in Users :
      /\ Cardinality(QuestSnippets(u)) <= 1
      /\ \A m \in QuestSnippets(u) :
           /\ u \in DOMAIN last_quest
           /\ m.snippet = ActiveQuestPrefix \o <<" ">> \o last_quest[u]

(***************************************************************************)
(* Claims on load_thread (SpecLoad).                                       *)
(***************************************************************************)
\* the stored value is the JSON text of a list of objects that each have
\* the keys "user" and "bot"
ExchangeList(raw) ==
  /\ raw.kind = "json" /\ raw.doc.t = "list"
  /\ \A i \in DOMAIN raw.doc.v :
       raw.doc.v[i].t = "obj" /\ {"user", "bot"} \subseteq DOMAIN raw.doc.v[i].v
\* the step in which the /continue handler p loads the stored thread
LoadsThread(p) == proc[p].pc = "c_getthread" /\ proc'[p].pc # "c_getthread"

\* C18: a stored value that is not a well-formed list of exchanges is loaded
\* as the empty window: /continue finds no thread and ends.
C18_MalformedLoadsEmpty ==
  [][\A p \in Procs, u \in Users :
       /\ LoadsThread(p) /\ proc[p].uid = u
       /\ ~ExchangeList(SlotValue(thread_store, u, NoRaw))
       => proc'[p].pc = "idle" /\ proc'[p].thread = <<>>]_vars

(***************************************************************************)
(* Claims on the order of the writes of a handler (SpecSession).           *)
(***************************************************************************)
\* C19: a row is added to messages only for a user whose users row exists
\* already when the row is added, and no users row is ever removed: every
\* row of messages refers to an existing user.
C19_UserBeforeRecord ==
  [][/\ \A i \in DOMAIN messages' :
          i > Len(messages) => messages'[i].user_id \in DOMAIN users
     /\ DOMAIN users \subseteq DOMAIN users'
     /\ \A i \in DOMAIN messages' : messages'[i].user_id \in DOMAIN users']_vars

\* both users have a row in messages, one written by /roll and one by /quest
C19_Witness ==
  \E i, j \in DOMAIN messages :
    /\ messages[i].kind = "roll" /\ messages[j].kind = "quest"
    /\ messages[i].user_id # messages[j].user_id
    /\ {messages[i].user_id, messages[j].user_id} \subseteq DOMAIN users

\* the text h occurs in the text
Contains(text, h) ==
  \E i \in 1..(Len(text) - Len(h) + 1) : SubSeq(text, i, i + Len(h) - 1) = h
\* /advice without text of user u, overlapped by no other request of u, is
\* about to call the collaborator
AsksForStrategy(p, u) ==
  /\ proc[p].pc = "a_gen" /\ proc[p].kind = "advice" /\ proc[p].uid = u
  /\ proc[p].alone /\ Strip(proc[p].text) = <<>>

\* C20: when /advice without text follows the /quest that installed the
\* hook h for the user, the question handed to the collaborator is
\* "Strategy to tackle my current quest: h" and the user message built from
\* it contains h.
C20_AdviceSeesQuest ==
  \A p \in Procs, u \in Users :
    AsksForStrategy(p, u) /\ u \in DOMAIN last_quest =>
      /\ proc[p].question =
           <<"Strategy to tackle my current quest:", " ">> \o last_quest[u]
      /\ Contains(build_user_prompt(proc[p].question, proc[p].quest), last_quest[u])

\* a /quest of the user has ended with the hook H installed, and the user's
\* /advice without text is about to call the collaborator
C20_Witness ==
  \E p \in Procs, u \in Users :
    /\ AsksForStrategy(p, u)
    /\ u \in DOMAIN last_quest /\ last_quest[u] = <<"H">>
    /\ Len(messages) = 1 /\ messages[1].kind = "quest" /\ messages[1].user_id = u

(***************************************************************************)
(* Claims on the daily analytics (SpecDaily).                              *)
(***************************************************************************)
\* the step in which /stats reads the snapshot of the day
ReadsSnapshot(p) == proc[p].pc = "t_snapshot" /\ proc'[p].pc = "t_reply"

\* C21: day_snapshot of a day that has no daily_counters row returns the
\* record with all seven counters 0.
C21_SnapshotZeroFilled ==
  [][\A p \in Procs :
       ReadsSnapshot(p) /\ local_day_key(now) \notin DOMAIN daily_counters =>
         day_snapshot(daily_counters, local_day_key(now)) = ZeroRow]_vars

(***************************************************************************)
(* Claims on the generation budget and on termination (SpecLive).          *)
(***************************************************************************)
\* the positions of the handlers in the order of the code
PcOrder ==
  <<"upsert", "inc", "c_getthread", "a_topmem", "c_topmem", "snap",
    "q_gen", "q_regen", "q_delmem", "q_setquest", "q_addmem", "q_prune",
    "q_clear", "q_addmsg",
    "a_getquest", "c_getquest", "a_gen", "c_gen", "a_addmsg", "c_addmsg",
    "a_addmem", "c_addmem", "a_prune", "c_prune", "a_align", "c_align",
    "a_setthread", "c_setthread", "idle">>
Rank(pc) == CHOOSE i \in DOMAIN PcOrder : PcOrder[i] = pc
\* the handler p is waiting for the collaborator
AwaitsGeneration(p) == proc[p].pc \in {"q_gen", "q_regen", "a_gen", "c_gen"}
\* the calls of the collaborator the /quest handler p has made, the pending
\* one included
QuestCalls(p) == Len(proc[p].gens) + (IF AwaitsGeneration(p) THEN 1 ELSE 0)

\* C22: a /quest handler calls the collaborator at most 3 times; a handler
\* never steps back to an earlier position, and only /quest stays at a
\* position, for its regenerations, so /advice and /continue call the
\* collaborator at most once; every handler in flight reaches its end.
C22_BudgetAndEnd ==
  /\ [][\A p \in Procs :
          /\ proc'[p].kind = "quest" => QuestCalls(p)' <= 3
          /\ InFlight(p) /\ proc'[p].pc # proc[p].pc =>
               Rank(proc'[p].pc) > Rank(proc[p].pc)
          /\ InFlight(p) /\ proc'[p].pc = proc[p].pc /\ proc'[p].attempts # proc[p].attempts =>
               /\ proc[p].pc = "q_regen"
               /\ proc'[p].attempts = proc[p].attempts + 1 /\ proc'[p].attempts <= 2]_vars
  /\ \A p \in Procs : InFlight(p) ~> Free(p)

\* a /quest handler is waiting for its third generation
C22_Witness ==
  \E p \in Procs :
    proc[p].pc = "q_regen" /\ Len(proc[p].gens) = 2 /\ proc[p].attempts = 2

(***************************************************************************)
(* Claims on the daily-report timer (SpecReport).                          *)
(***************************************************************************)
\* the first real hour after s at which the local clock shows the report hour
NextBoundary(s) ==
  CHOOSE t \in (s + 1)..(s + 2 * ReportDayLength + 1) :
    /\ WallHour(t) = DAILY_REPORT_HOUR
    /\ \A x \in (s + 1)..(t - 1) : WallHour(x) # DAILY_REPORT_HOUR
\* C23: a report is sent only at the first occurrence of DAILY_REPORT_HOUR
\* on the local clock after the task (re)computed its target, and no two
\* reports are sent for one boundary (one local day).
C23_FiresAtNextBoundary ==
  [][report'.sent # report.sent =>
       /\ now = NextBoundary(report.since)
       /\ \A i \in 1..Len(report.sent) : WallDay(report.sent[i]) # WallDay(now)
    ]_vars

(***************************************************************************)
(* Claims on admission before writes (SpecDaily).                          *)
(***************************************************************************)
StoreTables == <<users, messages, memories, last_quest, thread_store, feedback,
                 daily_counters>>
\* the handler p took a step
Stepped(p) == proc'[p].pc # proc[p].pc
\* the request p serves went through guard_access: its user is on the access
\* list and a check_rate_limit call of that user at the request's time
\* returned true
PassedGuard(p) ==
  /\ user_allowed(proc[p].uid)
  /\ \E i \in 1..Len(rateLog[proc[p].uid]) :
       /\ rateLog[proc[p].uid][i].ok
       /\ rateLog[proc[p].uid][i].ts = proc[p].ts
\* C24: every step that changes users, messages, memories, feedback,
\* daily_counters or user_state is a step of a handler whose request passed
\* guard_access; a refused request changes none of them.
C24_WritesAfterAdmission ==
  [][StoreTables' # StoreTables =>
       \E p \in Procs : InFlight(p) /\ Stepped(p) /\ PassedGuard(p)]_vars

(***************************************************************************)
(* Claims on the duplicate check and the push (SpecQuest).                 *)
(***************************************************************************)
\* the window holds key as the step begins
InWindow(key) == \E i \in 1..Len(RECENT_QUEST_HOOKS) : RECENT_QUEST_HOOKS[i] = key
\* the generation call that returned in this step of p
LastGen(p) == proc'[p].gens[Len(proc'[p].gens)]
\* the hook p accepts in this step is the text that call returned
FromGeneration(p) ==
  /\ ~LastGen(p).err
  /\ clean_quest_hook(LastGen(p).hook) # <<>>
  /\ proc'[p].hook = clean_quest_hook(LastGen(p).hook)
\* C25: the hook a /quest handler accepts is pushed in the step that made
\* its last duplicate check, whatever other /quest handlers did in between:
\* a hook that is in the window when it is pushed is one that did not pass
\* the check, either a generated hook accepted with both regenerations used
\* up, or a fallback drawn when every fallback is in the window; and the
\* push follows in the same step, with the key at the tail.
C25_CheckedAtPush ==
  [][\A p \in Procs :
       Accepts(p) =>
         /\ InWindow(HookKey(proc'[p].hook)) =>
              \/ FromGeneration(p) /\ proc[p].attempts = 2
              \/ /\ ~FromGeneration(p)
                 /\ \A i \in DOMAIN QUEST_FALLBACKS :
                      InWindow(HookKey(QUEST_FALLBACKS[i]))
         /\ RECENT_QUEST_HOOKS'[Len(RECENT_QUEST_HOOKS')] = HookKey(proc'[p].hook)
    ]_vars
\* two /quest handlers ran at once: q pushed the hook that p's first
\* generation also returned, p's check caught it and p accepted another
C25_Witness ==
  \E p, q \in Procs :
    /\ p # q
    /\ proc[p].pc = "q_delmem" /\ proc[q].kind = "quest" /\ HasAccepted(q)
    /\ Len(proc[p].gens) >= 2
    /\ ~proc[p].gens[1].err
    /\ HookKey(clean_quest_hook(proc[p].gens[1].hook)) = HookKey(proc[q].hook)
    /\ HookKey(proc[p].hook) # HookKey(proc[q].hook)
    /\ InWindow(HookKey(proc[p].hook)) /\ InWindow(HookKey(proc[q].hook))

(***************************************************************************)
(* Claims on a failed generation (SpecFail).                               *)
(***************************************************************************)
\* the positions of /advice and /continue up to the generation call
BeforeReplyPcs ==
  {"upsert", "inc", "a_topmem", "c_getthread", "c_topmem", "snap", "a_getquest",
   "c_getquest", "a_gen", "c_gen"}
\* the generation call of p fails in this step
FailsGeneration(p) == proc[p].pc \in {"a_gen", "c_gen"} /\ proc'[p].pc = "idle"
\* no user's alignment changes in this step
AlignmentsKept ==
  \A u \in DOMAIN users : u \in DOMAIN users' /\ users'[u].alignment = users[u].alignment
\* C26: the step in which the generation call of /advice or /continue fails
\* ends the handler and changes no table; the steps of the request before
\* it change nothing but the users row (not its alignment) and the day's
\* counters.
C26_FailureLeavesStore ==
  [][\A p \in Procs :
       /\ FailsGeneration(p) => StoreTables' = StoreTables
       /\ ( /\ proc[p].kind \in {"advice", "continue"}
            /\ proc[p].pc \in BeforeReplyPcs
            /\ proc'[p].pc # proc[p].pc )
          => /\ messages' = messages
             /\ memories' = memories
             /\ thread_store' = thread_store
             /\ last_quest' = last_quest
             /\ feedback' = feedback
             /\ AlignmentsKept]_vars
\* two requests were counted and both ended, each having loaded the stored
\* thread and so reached the generation call, and the store holds no record,
\* memory, alignment or thread beyond what it held at the start
C26_Witness ==
  /\ \A p \in Procs : Free(p)
  /\ daily_counters["d1"].advice_count = 3
  /\ Len(messages) = 1
  /\ memories = {}
  /\ users[ADMIN_USER_ID].alignment = "NEU"
  /\ thread_store = SlotSet(EmptyTable, ADMIN_USER_ID,
                            json_dumps(trim_thread(EarlierThread)))

(***************************************************************************)
(* Claims on counters and records (SpecTally).                             *)
(***************************************************************************)
\* the records of day d, and those of category k among them
RecordsOf(d) == {i \in 1..Len(messages) : local_day_key(messages[i].ts) = d}
RecordsOfKind(d, k) == {i \in RecordsOf(d) : messages[i].kind = k}
\* the counters of day d as the table holds them: zero without a row
CountersOf(d) == IF d \in DOMAIN daily_counters THEN daily_counters[d] ELSE ZeroRow
\* C27: for every day, interactions is at least the number of records
\* written for that day, and advice_count, quest_count and roll_count are
\* each at least the number of that day's records of their category.
C27_CountersCoverRecords ==
  \A d \in Days :
    /\ CountersOf(d).interactions >= Cardinality(RecordsOf(d))
    /\ CountersOf(d).advice_count >= Cardinality(RecordsOfKind(d, "advice"))
    /\ CountersOf(d).quest_count >= Cardinality(RecordsOfKind(d, "quest"))
    /\ CountersOf(d).roll_count >= Cardinality(RecordsOfKind(d, "roll"))
    /\ \A i \in RecordsOf(d) : messages[i].kind \in {"advice", "quest", "roll"}
\* a request that began on the first day wrote its record after midnight,
\* next to a record of another category on the second day
C27_Witness ==
  /\ now = DayLength
  /\ \E i, j \in 1..Len(messages) :
       /\ local_day_key(messages[i].ts) = "d1"
       /\ local_day_key(messages[j].ts) = "d2"
       /\ messages[i].kind # messages[j].kind
       /\ j < i

(***************************************************************************)
(* Claims on the counters' sum (SpecVotes).                                *)
(***************************************************************************)
\* C28: in the committed table, every row's interactions is the sum of its
\* advice_count, quest_count and roll_count, however the statements of the
\* inc_counter and inc_votes calls interleave.
C28_InteractionsIsSum ==
  \A d \in DOMAIN daily_counters :
    daily_counters[d].interactions =
      daily_counters[d].advice_count + daily_counters[d].quest_count
        + daily_counters[d].roll_count
\* a vote created the row of the first day, an inc_counter of a handler
\* committed to it afterwards, and another call has its upsert uncommitted
C28_Witness ==
  /\ "d1" \in DOMAIN daily_counters
  /\ daily_counters["d1"].upvotes + daily_counters["d1"].downvotes >= 1
  /\ daily_counters["d1"].interactions >= 1
  /\ \E c \in Conns :
       /\ incCall[c].pc = "upserted" /\ incCall[c].kind \in HandlerKinds
       /\ incCall[c].day = "d1"
       /\ txCounters["d1"].interactions #
            txCounters["d1"].advice_count + txCounters["d1"].quest_count
              + txCounters["d1"].roll_count

(***************************************************************************)
(* Claims on the thread /advice stores (SpecThread).                       *)
(***************************************************************************)
\* the step of p in which handle_advice stores the thread
StoresAdvice(p) == proc[p].pc = "a_setthread" /\ proc'[p].pc = "idle"
\* C29: when /advice stores the thread, the thread stored for its user is
\* from then exactly one exchange, the question handed to the collaborator
\* and the reply it gave, whatever was stored before.
C29_AdviceStartsThread ==
  [][\A p \in Procs, u \in Users :
       StoresAdvice(p) /\ proc[p].uid = u =>
         /\ Len(StoredEntries(u)') = 1
         /\ StoredThread(u)' = <<[user |-> proc[p].question, bot |-> proc[p].reply]>>
    ]_vars
\* three requests of the admin have ended: a /continue with a long text
\* left its memory, so it had stored a thread of two exchanges or more, and
\* the /advice that stored last left a thread of one exchange
C29_Witness ==
  /\ \A p \in Procs : Free(p)
  /\ Len(rateLog[ADMIN_USER_ID]) = 3
  /\ Len(messages) = 3
  /\ \E m \in memories : m.user_id = ADMIN_USER_ID /\ m.snippet = <<LongWord>>
  /\ Len(StoredThread(ADMIN_USER_ID)) = 1
====
